---- MODULE Spec2Model ----
(***************************************************************************)
(* State-machine model of the status cache of idoavrah/mytv:               *)
(* src/status_manager.py (StatusManager and NOW_PLAYING_ID_MAP), with the  *)
(* device gateway of src/tv_utils.py as the source of fetch outcomes.      *)
(*                                                                         *)
(* Titles are sequences of one-character strings, so that the substring    *)
(* test of _get_now_playing_id is computed and not assumed.                *)
(***************************************************************************)
EXTENDS Integers, Sequences, FiniteSets, TLC

(***************************************************************************)
(* NOW_PLAYING_ID_MAP, src/status_manager.py lines 18-42, in declaration   *)
(* order (a Python dict iterates in insertion order).                      *)
(***************************************************************************)
K_Unknown ==
    <<"U", "n", "k", "n", "o", "w", "n">>
K_Home_Screen ==
    <<"H", "o", "m", "e", " ", "S", "c", "r", "e", "e", "n">>
K_Web_Browser ==
    <<"W", "e", "b", " ", "B", "r", "o", "w", "s", "e", "r">>
K_PS5 ==
    <<"P", "S", "5">>
K_Switch ==
    <<"S", "w", "i", "t", "c", "h">>
K_HDMI_3 ==
    <<"H", "D", "M", "I", " ", "3">>
K_HDMI_4 ==
    <<"H", "D", "M", "I", " ", "4">>
K_TV ==
    <<"T", "V">>
K_AV ==
    <<"A", "V">>
K_Component ==
    <<"C", "o", "m", "p", "o", "n", "e", "n", "t">>
K_Netflix ==
    <<"N", "e", "t", "f", "l", "i", "x">>
K_YouTube ==
    <<"Y", "o", "u", "T", "u", "b", "e">>
K_DisneyPlus ==
    <<"D", "i", "s", "n", "e", "y", "+">>
K_Prime_Video ==
    <<"P", "r", "i", "m", "e", " ", "V", "i", "d", "e", "o">>
K_Apple_TV ==
    <<"A", "p", "p", "l", "e", " ", "T", "V">>
K_HBO_Max ==
    <<"H", "B", "O", " ", "M", "a", "x">>
K_Spotify ==
    <<"S", "p", "o", "t", "i", "f", "y">>
K_Plex ==
    <<"P", "l", "e", "x">>
K_Twitch ==
    <<"T", "w", "i", "t", "c", "h">>
K_Crunchyroll ==
    <<"C", "r", "u", "n", "c", "h", "y", "r", "o", "l", "l">>
K_DAZN ==
    <<"D", "A", "Z", "N">>
K_MLB ==
    <<"M", "L", "B">>
K_NBA ==
    <<"N", "B", "A">>
NOW_PLAYING_ID_MAP ==
    << <<K_Unknown, 0>>,
       <<K_Home_Screen, 1>>,
       <<K_Web_Browser, 2>>,
       <<K_PS5, 10>>,
       <<K_Switch, 11>>,
       <<K_HDMI_3, 12>>,
       <<K_HDMI_4, 13>>,
       <<K_TV, 20>>,
       <<K_AV, 21>>,
       <<K_Component, 22>>,
       <<K_Netflix, 100>>,
       <<K_YouTube, 101>>,
       <<K_DisneyPlus, 102>>,
       <<K_Prime_Video, 103>>,
       <<K_Apple_TV, 104>>,
       <<K_HBO_Max, 105>>,
       <<K_Spotify, 106>>,
       <<K_Plex, 107>>,
       <<K_Twitch, 108>>,
       <<K_Crunchyroll, 109>>,
       <<K_DAZN, 110>>,
       <<K_MLB, 111>>,
       <<K_NBA, 112>> >>
P_Something ==
    <<"S", "o", "m", "e", "t", "h", "i", "n", "g", " ">>
P_Kids ==
    <<" ", "K", "i", "d", "s">>
T_totally_unknown_app ==
    <<"t", "o", "t", "a", "l", "l", "y", "-", "u", "n", "k", "n", "o", "w", "n", "-", "a", "p", "p">>
T_Something_Netflix_Kids ==
    <<"S", "o", "m", "e", "t", "h", "i", "n", "g", " ", "N", "e", "t", "f", "l", "i", "x", " ", "K", "i", "d", "s">>
P_Space ==
    <<" ">>
P_Plus ==
    <<"+">>
T_Disney ==
    <<"D", "i", "s", "n", "e", "y">>
T_HDMI_1 ==
    <<"H", "D", "M", "I", " ", "1">>

(***************************************************************************)
(* Python's `key in title` on strings: key occurs as a contiguous slice.   *)
(***************************************************************************)
IsSubstring(key, title) ==
    \E i \in 0..(Len(title) - Len(key)) : SubSeq(title, i + 1, i + Len(key)) = key

MapKey(i) ==
    NOW_PLAYING_ID_MAP[i][1]

MapVal(i) ==
    NOW_PLAYING_ID_MAP[i][2]

(* The for loop of lines 196-198, from item i on; falls through to return 0. *)
RECURSIVE SubstringScan(_, _)
SubstringScan(title, i) ==
    IF i > Len(NOW_PLAYING_ID_MAP) THEN 0
    ELSE IF IsSubstring(MapKey(i), title) THEN MapVal(i)
    ELSE SubstringScan(title, i + 1)

(* _get_now_playing_id without the exact-match branch of lines 192-193. *)
get_now_playing_id_scan_only(title) ==
    SubstringScan(title, 1)

(* StatusManager._get_now_playing_id, lines 190-200. *)
get_now_playing_id(title) ==
    IF \E i \in DOMAIN NOW_PLAYING_ID_MAP : MapKey(i) = title
    THEN MapVal(CHOOSE i \in DOMAIN NOW_PLAYING_ID_MAP : MapKey(i) = title)
    ELSE SubstringScan(title, 1)

(***************************************************************************)
(* The values the requests carry.  A text is a sequence of characters; a   *)
(* decoded JSON value is tagged with its Python type: a dict is a function *)
(* from texts, a list a sequence of values.  An operation of the code that *)
(* raises yields Raise(text), text being str(e) of the exception.          *)
(***************************************************************************)
PyStr(s) ==
    [type |-> "str", value |-> s]

PyInt(n) ==
    [type |-> "int", value |-> n]

PyList(seq) ==
    [type |-> "list", value |-> seq]

PyDict(f) ==
    [type |-> "dict", value |-> f]

PyNone ==
    [type |-> "NoneType", value |-> <<>>]

Raise(text) ==
    [raise |-> text]

IsRaise(r) ==
    "raise" \in DOMAIN r

Digits ==
    <<"0", "1", "2", "3", "4", "5", "6", "7", "8", "9">>

(* str(n) of a natural number. *)
RECURSIVE Str(_)
Str(n) ==
    IF n < 10 THEN <<Digits[n + 1]>>
    ELSE Str(n \div 10) \o <<Digits[(n % 10) + 1]>>

(* Whether `key in v` is defined: on None and on a number it raises. *)
IsContainer(v) ==
    v.type \in {"dict", "list", "str"}

NotContainer ==
    Raise(<<"a", "r", "g", "u", "m", "e", "n", "t", " ", "i", "s", " ", "n", "o", "t", " ", "i", "t", "e", "r", "a", "b", "l", "e">>)

(* `key in v` for a container v. *)
Contains(key, v) ==
    CASE v.type = "dict" -> key \in DOMAIN v.value
      [] v.type = "list" ->
            \E i \in DOMAIN v.value : v.value[i].type = "str" /\ v.value[i].value = key
      [] v.type = "str" -> IsSubstring(key, v.value)

(* v[key], key a text. *)
GetItem(v, key) ==
    CASE v.type = "dict" ->
            IF key \in DOMAIN v.value THEN v.value[key] ELSE Raise(<<"'">> \o key \o <<"'">>)
      [] v.type = "list" -> Raise(<<"l", "i", "s", "t", " ", "i", "n", "d", "i", "c", "e", "s", " ", "m", "u", "s", "t", " ", "b", "e", " ", "i", "n", "t", "e", "g", "e", "r", "s", " ", "o", "r", " ", "s", "l", "i", "c", "e", "s", ",", " ", "n", "o", "t", " ", "s", "t", "r">>)
      [] v.type = "str" -> Raise(<<"s", "t", "r", "i", "n", "g", " ", "i", "n", "d", "i", "c", "e", "s", " ", "m", "u", "s", "t", " ", "b", "e", " ", "i", "n", "t", "e", "g", "e", "r", "s", ",", " ", "n", "o", "t", " ", "'", "s", "t", "r", "'">>)
      [] v.type \in {"NoneType", "int"} -> Raise(<<"o", "b", "j", "e", "c", "t", " ", "i", "s", " ", "n", "o", "t", " ", "s", "u", "b", "s", "c", "r", "i", "p", "t", "a", "b", "l", "e">>)

(* v[i], i a natural number. *)
GetIndex(v, i) ==
    CASE v.type = "list" ->
            IF i < Len(v.value) THEN v.value[i + 1] ELSE Raise(<<"l", "i", "s", "t", " ", "i", "n", "d", "e", "x", " ", "o", "u", "t", " ", "o", "f", " ", "r", "a", "n", "g", "e">>)
      [] v.type = "str" ->
            IF i < Len(v.value) THEN PyStr(<<v.value[i + 1]>>)
            ELSE Raise(<<"s", "t", "r", "i", "n", "g", " ", "i", "n", "d", "e", "x", " ", "o", "u", "t", " ", "o", "f", " ", "r", "a", "n", "g", "e">>)
      [] v.type = "dict" -> Raise(Str(i))
      [] v.type \in {"NoneType", "int"} -> Raise(<<"o", "b", "j", "e", "c", "t", " ", "i", "s", " ", "n", "o", "t", " ", "s", "u", "b", "s", "c", "r", "i", "p", "t", "a", "b", "l", "e">>)

(* The text an f-string puts for a number, a text or None. *)
Format(v) ==
    CASE v.type = "str" -> v.value
      [] v.type = "int" -> Str(v.value)
      [] v.type = "NoneType" -> <<"N", "o", "n", "e">>

(* bool(v). *)
Truthy(v) ==
    CASE v.type \in {"str", "list"} -> v.value # <<>>
      [] v.type = "dict" -> DOMAIN v.value # {}
      [] v.type = "int" -> v.value # 0
      [] v.type = "NoneType" -> FALSE

(* info.get(key, ""), the value being a text when the key is there. *)
GetText(info, key) ==
    IF key \in DOMAIN info.value THEN info.value[key].value ELSE <<>>

(* s.startswith(prefix). *)
StartsWith(s, prefix) ==
    Len(s) >= Len(prefix) /\ SubSeq(s, 1, Len(prefix)) = prefix

(* s.find(sep): the offset of the first occurrence of sep in s, or -1. *)
Find(s, sep) ==
    IF IsSubstring(sep, s)
    THEN CHOOSE i \in 0..(Len(s) - Len(sep)) :
            /\ SubSeq(s, i + 1, i + Len(sep)) = sep
            /\ \A j \in 0..(i - 1) : SubSeq(s, j + 1, j + Len(sep)) # sep
    ELSE -1

(* s.split(sep), sep not empty. *)
RECURSIVE Split(_, _)
Split(s, sep) ==
    LET i == Find(s, sep)
    IN  IF i = -1 THEN <<s>>
        ELSE <<SubSeq(s, 1, i)>> \o Split(SubSeq(s, i + Len(sep) + 1, Len(s)), sep)

Whitespace ==
    {" ", "\n", "\t", "\r"}

(* s.strip(). *)
RECURSIVE Strip(_)
Strip(s) ==
    IF s = <<>> THEN s
    ELSE IF Head(s) \in Whitespace THEN Strip(Tail(s))
    ELSE IF s[Len(s)] \in Whitespace THEN Strip(SubSeq(s, 1, Len(s) - 1))
    ELSE s

(* s.replace(c, ""), c one character. *)
Remove(s, c) ==
    SelectSeq(s, LAMBDA x : x # c)

UpperCase ==
    <<"A", "B", "C", "D", "E", "F", "G", "H", "I", "J", "K", "L", "M",
      "N", "O", "P", "Q", "R", "S", "T", "U", "V", "W", "X", "Y", "Z">>

LowerCase ==
    <<"a", "b", "c", "d", "e", "f", "g", "h", "i", "j", "k", "l", "m",
      "n", "o", "p", "q", "r", "s", "t", "u", "v", "w", "x", "y", "z">>

(* s.lower(). *)
Lower(s) ==
    [i \in DOMAIN s |->
        IF \E k \in DOMAIN UpperCase : UpperCase[k] = s[i]
        THEN LowerCase[CHOOSE k \in DOMAIN UpperCase : UpperCase[k] = s[i]]
        ELSE s[i]]

(***************************************************************************)
(* Configuration and the values the device can answer with.                *)
(***************************************************************************)
poll_interval ==
    10

max_error_iterations ==
    3

(* The literal 5 of `time.time() - self.last_override_time < 5`. *)
CoolDown ==
    5

(* time.time() when the loop starts; any instant at least CoolDown after 0. *)
BootTime ==
    100

(* The clock runs from BootTime to BootTime + Horizon when the loop runs    *)
(* alone, and to BootTime + RequestHorizon when request handlers call in.   *)
Horizon ==
    42

RequestHorizon ==
    20

(* The last instant at which a poll can start when the exit of the loop is *)
(* followed: BootTime + ShutdownHorizon.                                   *)
ShutdownHorizon ==
    12

(* The clock when every answer of _fetch_now_playing is tried: to *)
(* BootTime + ContentHorizon.                                     *)
ContentHorizon ==
    12

(* The clock when update_override is called during an outage of the power *)
(* request: to BootTime + OutageHorizon.                                  *)
OutageHorizon ==
    42

(* A counter stops growing here: no fetch of the signal fails once its *)
(* counter has this value.                                             *)
MaxPowerFails ==
    5

MaxVolumeFails ==
    2

MaxNowPlayingFails ==
    5

Handlers ==
    {"h1"}

NoOwner ==
    "free"

PowerStatuses ==
    {"active", "standby"}

(* Speaker entries of getVolumeInformation: v.get("volume", 0), v.get("mute", False). *)
VolumeReadings ==
    {[volume |-> 25, muted |-> TRUE]}

(* Results of _fetch_now_playing that name a content. *)
NowPlayingResults ==
    {<<K_Netflix, <<"c", "o", "m", ".", "n", "e", "t", "f", "l", "i", "x", ".", "n", "i", "n", "j", "a">>>>}

(* The sentinel of line 188. *)
NowPlayingUnknown ==
    <<K_Unknown, <<>>>>

(* What _fetch_now_playing can return. *)
NowPlayingAnswers ==
    NowPlayingResults \cup {NowPlayingUnknown}

(* The same with the two answers that satisfy one half of line 139's test:  *)
(* the title "Unknown" with a uri, and a title with no uri.                 *)
NowPlayingEdgeAnswers ==
    NowPlayingAnswers \cup {<<K_Unknown, <<"c", "o", "m", ".", "e", "x", "a", "m", "p", "l", "e", ".", "a", "p", "p">>>>, <<K_Plex, <<>>>>}

(* Arguments the request handlers pass to update_override. *)
OverrideArgs ==
    {<<K_Spotify, <<"u", "r", "i", ":", "x">>>>}

VARIABLES
    current_status,      \* self.current_status
    error_counts,        \* self.error_counts
    lock,                \* owner of self.lock, or NoOwner
    stop_event,          \* self.stop_event.is_set()
    last_override_time,  \* self.last_override_time
    now,                 \* the wall clock, in seconds
    loop_pc,             \* where the background thread is in _update_loop
    new_values,          \* the local new_values of _refresh_status
    np_read,             \* the value read by error_counts["now_playing"] += 1
    wake,                \* the instant the current time.sleep ends
    h_pc,                \* where each request handler is
    h_args,              \* the (title, uri) of a handler's update_override
    snapshot,            \* the copy get_status returned to a handler
    cycle_acquires,      \* history: lock acquisitions of the current poll cycle
    stable,              \* history: the record when the last writer released the lock
    power_ok,            \* history: the last successfully fetched power status
    power_fails,         \* history: failed power fetches since the last success
    volume_ok,           \* history: the last successfully fetched speaker entry
    volume_fails,        \* history: failed volume fetches since the last success
    now_playing_fails,   \* history: failed now-playing fetches counted since the
                         \*          last success or override
    power_fail_since,    \* history: the instant of the first of the power_fails
    override_seen,       \* history: the last update_override that has returned
    resolve_title,       \* a title handed to _get_now_playing_id on its own
    resolve_id,          \* what _get_now_playing_id returned for it
    sony_outcome,        \* what the device does with one make_sony_api_request
    sony_result,         \* what make_sony_api_request returned for it
    fetch_pc,            \* where _fetch_now_playing is
    fetch_res,           \* the res of _fetch_now_playing, line 158
    fetch_local,         \* the title and uri of _fetch_now_playing
    fetch_probe,         \* what the last adb command did
    fetch_calls,         \* history: the requests and commands of the fetch
    fetch_result         \* what _fetch_now_playing returns or raises

vars ==
    <<current_status, error_counts, lock, stop_event, last_override_time, now,
      loop_pc, new_values, np_read, wake, h_pc, h_args, snapshot,
      cycle_acquires, stable, power_ok, power_fails, volume_ok, volume_fails,
      now_playing_fails, power_fail_since, override_seen, resolve_title, resolve_id,
      sony_outcome, sony_result, fetch_pc, fetch_res, fetch_local, fetch_probe,
      fetch_calls, fetch_result>>

loop_vars ==
    <<loop_pc, new_values, np_read, wake, cycle_acquires>>

handler_vars ==
    <<h_pc, h_args, snapshot>>

fetch_history ==
    <<power_ok, power_fails, volume_ok>>

fail_history ==
    <<volume_fails, now_playing_fails, power_fail_since>>

(* The variables of the functions exercised on their own. *)
request_vars ==
    <<sony_outcome, sony_result, fetch_pc, fetch_res, fetch_local, fetch_probe,
      fetch_calls, fetch_result>>

resolver_vars ==
    <<resolve_title, resolve_id, request_vars>>

(* An optional value: <<>> is None, <<v>> is v. *)
None ==
    <<>>

Some(v) ==
    <<v>>

(* dict.update: the keys of values overwrite those of d. *)
DictUpdate(d, values) ==
    [k \in DOMAIN d |-> IF k \in DOMAIN values THEN values[k] ELSE d[k]]

(* d[k] = v on a local dict that may not have k yet. *)
DictSet(d, k, v) ==
    [x \in DOMAIN d \cup {k} |-> IF x = k THEN v ELSE d[x]]

(* StatusManager.__init__, lines 45-70, with the threads that will call it. *)
InitManager(callers) ==
    /\ current_status = [power |-> "unknown", volume |-> 0, muted |-> FALSE,
                         title |-> K_Unknown, uri |-> <<>>, now_playing_id |-> 0,
                         timestamp |-> None]
    /\ error_counts = [power |-> 0, volume |-> 0, now_playing |-> 0]
    /\ lock = NoOwner
    /\ stop_event = FALSE
    /\ last_override_time = 0
    /\ now = BootTime
    /\ loop_pc = "top"
    /\ new_values = <<>>
    /\ np_read = 0
    /\ wake = BootTime
    /\ h_pc = [h \in callers |-> "idle"]
    /\ h_args = [h \in callers |-> None]
    /\ snapshot = [h \in callers |-> None]
    /\ cycle_acquires = 0
    /\ stable = current_status
    /\ power_ok = None
    /\ power_fails = 0
    /\ volume_ok = None
    /\ volume_fails = 0
    /\ now_playing_fails = 0
    /\ power_fail_since = None
    /\ override_seen = None

(* StatusManager.__init__, lines 45-70. *)
InitStatusManager ==
    InitManager(Handlers)

(* No request is exercised on its own. *)
InitRequests ==
    /\ sony_outcome = None
    /\ sony_result = None
    /\ fetch_pc = "idle"
    /\ fetch_res = None
    /\ fetch_local = [title |-> <<>>, uri |-> <<>>]
    /\ fetch_probe = None
    /\ fetch_calls = <<>>
    /\ fetch_result = None

Init ==
    /\ InitStatusManager
    /\ resolve_title = <<>>
    /\ resolve_id = None
    /\ InitRequests

(***************************************************************************)
(* The background thread: _update_loop (lines 93-107) and _refresh_status  *)
(* (lines 109-154).  A device request is in flight while loop_pc is one of *)
(* the *_wait values; the thread blocks there and the other threads run.   *)
(***************************************************************************)
InFlight ==
    {"power_wait", "volume_wait", "now_playing_wait"}

(* A window one poll interval too long. *)
RecentOverrideLong ==
    now - last_override_time < CoolDown + poll_interval

(* A window two seconds too short. *)
RecentOverrideShort ==
    now - last_override_time < CoolDown - 2

(* Line 98: the test that skips the poll after a manual override. *)
RecentOverride ==
    now - last_override_time < CoolDown

(* Line 107: time.sleep(self.poll_interval). *)
GoToSleep ==
    /\ loop_pc' = "sleep"
    /\ wake' = now + poll_interval

(* No except clause: the exception ends the thread. *)
CaughtExceptionEndsLoop ==
    /\ loop_pc' = "exited"
    /\ UNCHANGED <<current_status, error_counts, lock, stop_event, last_override_time,
                   now, new_values, np_read, wake, cycle_acquires, stable, fetch_history,
                   override_seen, handler_vars, resolver_vars,
                   fail_history>>

(* An except clause that applies the values fetched before the exception. *)
CaughtExceptionApplies ==
    /\ GoToSleep
    /\ current_status' = IF new_values = <<>> THEN current_status
                          ELSE DictUpdate(current_status, new_values)
    /\ UNCHANGED <<error_counts, lock, stop_event, last_override_time,
                   now, new_values, np_read, cycle_acquires, stable, fetch_history,
                   override_seen, handler_vars, resolver_vars,
                   fail_history>>

(* Lines 104-105: an exception of the poll cycle is logged; the loop sleeps. *)
CaughtException ==
    /\ GoToSleep
    /\ UNCHANGED <<current_status, error_counts, lock, stop_event, last_override_time,
                   now, new_values, np_read, cycle_acquires, stable, fetch_history,
                   override_seen, handler_vars, resolver_vars,
                   fail_history>>

(* `while True`: a set stop_event does not end the loop. *)
LoopExitPollsOn ==
    /\ loop_pc = "top"
    /\ stop_event
    /\ loop_pc' = "power_wait"
    /\ new_values' = <<>>
    /\ cycle_acquires' = 0
    /\ UNCHANGED <<current_status, error_counts, lock, stop_event, last_override_time,
                   now, np_read, wake, stable, fetch_history, override_seen,
                   handler_vars, resolver_vars,
                   fail_history>>

(* Line 95, stop_event set: the while loop ends. *)
LoopExit ==
    /\ loop_pc = "top"
    /\ stop_event
    /\ loop_pc' = "exited"
    /\ UNCHANGED <<current_status, error_counts, lock, stop_event, last_override_time,
                   now, new_values, np_read, wake, cycle_acquires, stable,
                   fetch_history, override_seen, handler_vars, resolver_vars,
                   fail_history>>

(* A skipped tick that counts as a success of every signal. *)
LoopSkipResets ==
    /\ loop_pc = "top"
    /\ ~stop_event
    /\ RecentOverride
    /\ GoToSleep
    /\ error_counts' = [k \in DOMAIN error_counts |-> 0]
    /\ UNCHANGED <<current_status, lock, stop_event, last_override_time,
                   now, new_values, np_read, cycle_acquires, stable, fetch_history,
                   override_seen, handler_vars, resolver_vars,
                   fail_history>>

(* Lines 95-99 and 107: a tick inside the cool-down window polls nothing. *)
LoopSkip ==
    /\ loop_pc = "top"
    /\ ~stop_event
    /\ RecentOverride
    /\ GoToSleep
    /\ UNCHANGED <<current_status, error_counts, lock, stop_event, last_override_time,
                   now, new_values, np_read, cycle_acquires, stable, fetch_history,
                   override_seen, handler_vars, resolver_vars,
                   fail_history>>

(* The poll cycle takes the lock before its first request. *)
LoopRefreshLocked ==
    /\ loop_pc = "top"
    /\ ~stop_event
    /\ ~RecentOverride
    /\ lock = NoOwner
    /\ lock' = "loop"
    /\ loop_pc' = "power_wait"
    /\ new_values' = <<>>
    /\ cycle_acquires' = 0
    /\ UNCHANGED <<current_status, error_counts, stop_event, last_override_time,
                   now, np_read, wake, stable, fetch_history, override_seen,
                   handler_vars, resolver_vars,
                   fail_history>>

(* Lines 100-101, 110, 113: _refresh_status starts and asks for the power status. *)
LoopRefresh ==
    /\ loop_pc = "top"
    /\ ~stop_event
    /\ ~RecentOverride
    /\ loop_pc' = "power_wait"
    /\ new_values' = <<>>
    /\ cycle_acquires' = 0
    /\ UNCHANGED <<current_status, error_counts, lock, stop_event, last_override_time,
                   now, np_read, wake, stable, fetch_history, override_seen,
                   handler_vars, resolver_vars,
                   fail_history>>

(* Line 116 left out: the status is taken, the counter is not reset. *)
PowerSuccessKeepsCount(status) ==
    /\ loop_pc = "power_wait"
    /\ new_values' = DictSet(new_values, "power", status)
    /\ error_counts' = error_counts
    /\ power_ok' = Some(status)
    /\ power_fails' = 0
    /\ loop_pc' = "volume_wait"
    /\ power_fail_since' = None
    /\ UNCHANGED <<current_status, lock, stop_event, last_override_time, now, np_read,
                   wake, cycle_acquires, stable, volume_ok, override_seen,
                   handler_vars, resolver_vars,
                   volume_fails, now_playing_fails>>

(* Lines 114-116: getPowerStatus answered with a status. *)
PowerSuccess(status) ==
    /\ loop_pc = "power_wait"
    /\ new_values' = DictSet(new_values, "power", status)
    /\ error_counts' = [error_counts EXCEPT !.power = 0]
    /\ power_ok' = Some(status)
    /\ power_fails' = 0
    /\ loop_pc' = "volume_wait"
    /\ power_fail_since' = None
    /\ UNCHANGED <<current_status, lock, stop_event, last_override_time, now, np_read,
                   wake, cycle_acquires, stable, volume_ok, override_seen,
                   handler_vars, resolver_vars,
                   volume_fails, now_playing_fails>>

(* "offline" one failure late. *)
PowerFailureLate ==
    /\ loop_pc = "power_wait"
    /\ error_counts.power < MaxPowerFails
    /\ error_counts' = [error_counts EXCEPT !.power = @ + 1]
    /\ new_values' = IF error_counts'.power > max_error_iterations + 1
                     THEN DictSet(new_values, "power", "offline")
                     ELSE new_values
    /\ power_fails' = power_fails + 1
    /\ loop_pc' = "volume_wait"
    /\ power_fail_since' = IF power_fails = 0 THEN Some(now) ELSE power_fail_since
    /\ UNCHANGED <<current_status, lock, stop_event, last_override_time, now, np_read,
                   wake, cycle_acquires, stable, power_ok, volume_ok, override_seen,
                   handler_vars, resolver_vars,
                   volume_fails, now_playing_fails>>

(* Lines 117-120: the request failed; "offline" only past the threshold. *)
PowerFailure ==
    /\ loop_pc = "power_wait"
    /\ error_counts.power < MaxPowerFails
    /\ error_counts' = [error_counts EXCEPT !.power = @ + 1]
    /\ new_values' = IF error_counts'.power > max_error_iterations
                     THEN DictSet(new_values, "power", "offline")
                     ELSE new_values
    /\ power_fails' = power_fails + 1
    /\ loop_pc' = "volume_wait"
    /\ power_fail_since' = IF power_fails = 0 THEN Some(now) ELSE power_fail_since
    /\ UNCHANGED <<current_status, lock, stop_event, last_override_time, now, np_read,
                   wake, cycle_acquires, stable, power_ok, volume_ok, override_seen,
                   handler_vars, resolver_vars,
                   volume_fails, now_playing_fails>>

(* Line 115 raises on a result without [0]["status"]; caught at line 104. *)
PowerRaises ==
    /\ loop_pc = "power_wait"
    /\ CaughtException

(* Lines 124-132: a speaker entry was found. *)
VolumeSuccess(reading) ==
    /\ loop_pc = "volume_wait"
    /\ new_values' = DictSet(DictSet(new_values, "volume", reading.volume),
                             "muted", reading.muted)
    /\ error_counts' = [error_counts EXCEPT !.volume = 0]
    /\ volume_ok' = Some(reading)
    /\ loop_pc' = "now_playing_wait"
    /\ volume_fails' = 0
    /\ UNCHANGED <<current_status, lock, stop_event, last_override_time, now, np_read,
                   wake, cycle_acquires, stable, power_ok, power_fails, override_seen,
                   handler_vars, resolver_vars, now_playing_fails,
                   power_fail_since>>

(* Lines 124-132: the answer holds no entry whose target is "speaker". *)
VolumeNoSpeaker ==
    /\ loop_pc = "volume_wait"
    /\ error_counts' = [error_counts EXCEPT !.volume = 0]
    /\ loop_pc' = "now_playing_wait"
    /\ volume_fails' = 0
    /\ UNCHANGED <<current_status, lock, stop_event, last_override_time, now,
                   new_values, np_read, wake, cycle_acquires, stable, fetch_history,
                   override_seen, handler_vars, resolver_vars, now_playing_fails,
                   power_fail_since>>

(* Lines 133-135: the request failed; the previous volume is kept. *)
VolumeFailure ==
    /\ loop_pc = "volume_wait"
    /\ error_counts.volume < MaxVolumeFails
    /\ error_counts' = [error_counts EXCEPT !.volume = @ + 1]
    /\ loop_pc' = "now_playing_wait"
    /\ volume_fails' = volume_fails + 1
    /\ UNCHANGED <<current_status, lock, stop_event, last_override_time, now,
                   new_values, np_read, wake, cycle_acquires, stable, fetch_history,
                   override_seen, handler_vars, resolver_vars, now_playing_fails,
                   power_fail_since>>

(* Lines 126-128 raise on a malformed result; caught at line 104. *)
VolumeRaises ==
    /\ loop_pc = "volume_wait"
    /\ CaughtException

(* `and` for `or` at line 139. *)
NowPlayingFetchedBoth(title, uri) ==
    title # K_Unknown /\ uri # <<>>

(* Line 139: what counts as a fetched now-playing. *)
NowPlayingFetched(title, uri) ==
    title # K_Unknown \/ uri # <<>>

(* Lines 138-143: _fetch_now_playing returned a content. *)
NowPlayingSuccess(title, uri) ==
    /\ loop_pc = "now_playing_wait"
    /\ NowPlayingFetched(title, uri)
    /\ new_values' = DictSet(DictSet(DictSet(new_values, "title", title), "uri", uri),
                             "now_playing_id", get_now_playing_id(title))
    /\ error_counts' = [error_counts EXCEPT !.now_playing = 0]
    /\ loop_pc' = "commit"
    /\ now_playing_fails' = 0
    /\ UNCHANGED <<current_status, lock, stop_event, last_override_time, now, np_read,
                   wake, cycle_acquires, stable, fetch_history, override_seen,
                   handler_vars, resolver_vars, volume_fails,
                   power_fail_since>>

(* Lines 144-145: nothing was fetched; `+= 1` first reads the counter. *)
NowPlayingFailure(title, uri) ==
    /\ loop_pc = "now_playing_wait"
    /\ ~NowPlayingFetched(title, uri)
    /\ error_counts.now_playing < MaxNowPlayingFails
    /\ np_read' = error_counts.now_playing
    /\ loop_pc' = "now_playing_store"
    /\ UNCHANGED <<current_status, error_counts, lock, stop_event, last_override_time,
                   now, new_values, wake, cycle_acquires, stable, fetch_history,
                   override_seen, handler_vars, resolver_vars,
                   fail_history>>

(* Line 145: `+= 1` stores the incremented value. *)
NowPlayingStore ==
    /\ loop_pc = "now_playing_store"
    /\ error_counts' = [error_counts EXCEPT !.now_playing = np_read + 1]
    /\ now_playing_fails' = now_playing_fails + 1
    /\ loop_pc' = "now_playing_check"
    /\ UNCHANGED <<current_status, lock, stop_event, last_override_time, now,
                   new_values, np_read, wake, cycle_acquires, stable, fetch_history,
                   override_seen, handler_vars, resolver_vars, volume_fails,
                   power_fail_since>>

(* The sentinel one failure early: `>=` for `>` at line 146. *)
NowPlayingCheckEarly ==
    /\ loop_pc = "now_playing_check"
    /\ new_values' = IF error_counts.now_playing >= max_error_iterations
                     THEN DictSet(DictSet(DictSet(new_values, "title", K_Unknown),
                                          "uri", <<>>), "now_playing_id", 0)
                     ELSE new_values
    /\ loop_pc' = "commit"
    /\ UNCHANGED <<current_status, error_counts, lock, stop_event, last_override_time,
                   now, np_read, wake, cycle_acquires, stable, fetch_history,
                   override_seen, handler_vars, resolver_vars,
                   fail_history>>

(* Lines 146-149: the counter is read again; the sentinel past the threshold. *)
NowPlayingCheck ==
    /\ loop_pc = "now_playing_check"
    /\ new_values' = IF error_counts.now_playing > max_error_iterations
                     THEN DictSet(DictSet(DictSet(new_values, "title", K_Unknown),
                                          "uri", <<>>), "now_playing_id", 0)
                     ELSE new_values
    /\ loop_pc' = "commit"
    /\ UNCHANGED <<current_status, error_counts, lock, stop_event, last_override_time,
                   now, np_read, wake, cycle_acquires, stable, fetch_history,
                   override_seen, handler_vars, resolver_vars,
                   fail_history>>

(* Lines 160-169 raise on a malformed result; caught at line 104. *)
NowPlayingRaises ==
    /\ loop_pc = "now_playing_wait"
    /\ CaughtException

(* The commit without `with self.lock`. *)
CommitAcquireUnlocked ==
    /\ loop_pc = "commit"
    /\ cycle_acquires' = cycle_acquires + 1
    /\ loop_pc' = "commit_update"
    /\ UNCHANGED <<current_status, error_counts, lock, stop_event, last_override_time, now,
                   new_values, np_read, wake, stable, fetch_history, override_seen,
                   handler_vars, resolver_vars,
                   fail_history>>

(* Line 152: `with self.lock` of the commit. *)
CommitAcquire ==
    /\ loop_pc = "commit"
    /\ lock = NoOwner
    /\ lock' = "loop"
    /\ cycle_acquires' = cycle_acquires + 1
    /\ loop_pc' = "commit_update"
    /\ UNCHANGED <<current_status, error_counts, stop_event, last_override_time, now,
                   new_values, np_read, wake, stable, fetch_history, override_seen,
                   handler_vars, resolver_vars,
                   fail_history>>

(* Line 153: self.current_status.update(new_values). *)
CommitUpdate ==
    /\ loop_pc = "commit_update"
    /\ current_status' = DictUpdate(current_status, new_values)
    /\ loop_pc' = "commit_timestamp"
    /\ UNCHANGED <<error_counts, lock, stop_event, last_override_time, now, new_values,
                   np_read, wake, cycle_acquires, stable, fetch_history, override_seen,
                   handler_vars, resolver_vars,
                   fail_history>>

(* The timestamp only when a fetch brought something to write. *)
CommitTimestampIfChanged ==
    /\ loop_pc = "commit_timestamp"
    /\ current_status' = IF new_values = <<>> THEN current_status
                         ELSE [current_status EXCEPT !.timestamp = Some(now)]
    /\ stable' = current_status'
    /\ lock' = NoOwner
    /\ GoToSleep
    /\ UNCHANGED <<error_counts, stop_event, last_override_time, now, new_values,
                   np_read, cycle_acquires, fetch_history, override_seen, handler_vars, resolver_vars,
                   fail_history>>

(* Line 154, the end of the with block, the log of line 103 and line 107. *)
CommitTimestamp ==
    /\ loop_pc = "commit_timestamp"
    /\ current_status' = [current_status EXCEPT !.timestamp = Some(now)]
    /\ stable' = current_status'
    /\ lock' = NoOwner
    /\ GoToSleep
    /\ UNCHANGED <<error_counts, stop_event, last_override_time, now, new_values,
                   np_read, cycle_acquires, fetch_history, override_seen, handler_vars, resolver_vars,
                   fail_history>>

(* Line 107: time.sleep returns once poll_interval has passed. *)
Wake ==
    /\ loop_pc = "sleep"
    /\ now >= wake
    /\ loop_pc' = "top"
    /\ UNCHANGED <<current_status, error_counts, lock, stop_event, last_override_time,
                   now, new_values, np_read, wake, cycle_acquires, stable,
                   fetch_history, override_seen, handler_vars, resolver_vars,
                   fail_history>>

(***************************************************************************)
(* The request handlers: any thread may call get_status or update_override.*)
(***************************************************************************)

(* Line 76: `with self.lock` of get_status. *)
GetStatusAcquire(h) ==
    /\ h_pc[h] = "idle"
    /\ lock = NoOwner
    /\ lock' = h
    /\ h_pc' = [h_pc EXCEPT ![h] = "get_status_copy"]
    /\ UNCHANGED <<current_status, error_counts, stop_event, last_override_time, now,
                   loop_vars, resolver_vars, stable, fetch_history, override_seen, h_args, snapshot,
                   fail_history>>

(* What a caller can hold after get_status: a dict of its own (Some(d)), or  *)
(* a reference to self.current_status itself.  dict.copy() gives the first. *)
LiveRecord ==
    <<"self", "current_status">>

IsLive(ref) ==
    Len(ref) = 2

(* The dict a caller reads through what get_status returned to it. *)
Returned(h) ==
    IF IsLive(snapshot[h]) THEN current_status ELSE snapshot[h][1]

(* `return self.current_status`, without the copy. *)
GetStatusNoCopy(h) ==
    /\ h_pc[h] = "get_status_copy"
    /\ snapshot' = [snapshot EXCEPT ![h] = LiveRecord]
    /\ lock' = NoOwner
    /\ h_pc' = [h_pc EXCEPT ![h] = "get_status_return"]
    /\ UNCHANGED <<current_status, error_counts, stop_event, last_override_time, now,
                   loop_vars, resolver_vars, stable, fetch_history, override_seen, h_args,
                   fail_history>>

(* Line 77: the copy is made and the lock released. *)
GetStatusCopy(h) ==
    /\ h_pc[h] = "get_status_copy"
    /\ snapshot' = [snapshot EXCEPT ![h] = Some(current_status)]
    /\ lock' = NoOwner
    /\ h_pc' = [h_pc EXCEPT ![h] = "get_status_return"]
    /\ UNCHANGED <<current_status, error_counts, stop_event, last_override_time, now,
                   loop_vars, resolver_vars, stable, fetch_history, override_seen, h_args,
                   fail_history>>

(* The caller is done with the copy it was given. *)
GetStatusReturn(h) ==
    /\ h_pc[h] = "get_status_return"
    /\ snapshot' = [snapshot EXCEPT ![h] = None]
    /\ h_pc' = [h_pc EXCEPT ![h] = "idle"]
    /\ UNCHANGED <<current_status, error_counts, lock, stop_event, last_override_time,
                   now, loop_vars, resolver_vars, stable, fetch_history, override_seen, h_args,
                   fail_history>>

(* The caller writes a key of the dict it was given: snap["power"] = "edited". *)
(* The write lands in the object the caller holds.                            *)
SnapshotEdit(h) ==
    /\ h_pc[h] = "get_status_return"
    /\ Returned(h).power # "edited"
    /\ IF IsLive(snapshot[h])
       THEN /\ current_status' = [current_status EXCEPT !.power = "edited"]
            /\ UNCHANGED snapshot
       ELSE /\ snapshot' = [snapshot EXCEPT ![h] = Some([@[1] EXCEPT !.power = "edited"])]
            /\ UNCHANGED current_status
    /\ UNCHANGED <<error_counts, lock, stop_event, last_override_time, now, loop_vars,
                   resolver_vars, stable, fetch_history, override_seen, h_args, h_pc,
                   fail_history>>

(* Line 81: `with self.lock` of update_override(title, uri). *)
OverrideAcquire(h, title, uri) ==
    /\ h_pc[h] = "idle"
    /\ lock = NoOwner
    /\ lock' = h
    /\ h_args' = [h_args EXCEPT ![h] = Some([title |-> title, uri |-> uri])]
    /\ h_pc' = [h_pc EXCEPT ![h] = "override_status"]
    /\ UNCHANGED <<current_status, error_counts, stop_event, last_override_time, now,
                   loop_vars, resolver_vars, stable, fetch_history, override_seen, snapshot,
                   fail_history>>

(* Lines 82-87 without the now_playing_id of line 85. *)
OverrideStatusKeepsId(h) ==
    /\ h_pc[h] = "override_status"
    /\ current_status' =
           DictUpdate(current_status,
                      [title |-> h_args[h][1].title,
                       uri |-> h_args[h][1].uri,
                       timestamp |-> Some(now)])
    /\ h_pc' = [h_pc EXCEPT ![h] = "override_time"]
    /\ UNCHANGED <<error_counts, lock, stop_event, last_override_time, now, loop_vars, resolver_vars,
                   stable, fetch_history, override_seen, h_args, snapshot,
                   fail_history>>

(* Lines 82-87: title, uri, now_playing_id and timestamp in one dict.update. *)
OverrideStatus(h) ==
    /\ h_pc[h] = "override_status"
    /\ current_status' =
           DictUpdate(current_status,
                      [title |-> h_args[h][1].title,
                       uri |-> h_args[h][1].uri,
                       now_playing_id |-> get_now_playing_id(h_args[h][1].title),
                       timestamp |-> Some(now)])
    /\ h_pc' = [h_pc EXCEPT ![h] = "override_time"]
    /\ UNCHANGED <<error_counts, lock, stop_event, last_override_time, now, loop_vars, resolver_vars,
                   stable, fetch_history, override_seen, h_args, snapshot,
                   fail_history>>

(* Line 88: self.last_override_time = time.time(). *)
OverrideTime(h) ==
    /\ h_pc[h] = "override_time"
    /\ last_override_time' = now
    /\ h_pc' = [h_pc EXCEPT ![h] = "override_count"]
    /\ UNCHANGED <<current_status, error_counts, lock, stop_event, now, loop_vars, resolver_vars,
                   stable, fetch_history, override_seen, h_args, snapshot,
                   fail_history>>

(* Line 90 resetting the three counters. *)
OverrideCountAll(h) ==
    /\ h_pc[h] = "override_count"
    /\ error_counts' = [k \in DOMAIN error_counts |-> 0]
    /\ lock' = NoOwner
    /\ stable' = current_status
    /\ override_seen' = Some([title |-> h_args[h][1].title, uri |-> h_args[h][1].uri,
                              time |-> last_override_time])
    /\ h_args' = [h_args EXCEPT ![h] = None]
    /\ h_pc' = [h_pc EXCEPT ![h] = "idle"]
    /\ now_playing_fails' = 0
    /\ UNCHANGED <<current_status, stop_event, last_override_time, now, loop_vars, resolver_vars,
                   fetch_history, snapshot, volume_fails,
                   power_fail_since>>

(* Line 90 and the end of the with block: the counter is reset, the call  *)
(* returns and leaves its caller at pc.                                   *)
OverrideReturn(h, pc) ==
    /\ h_pc[h] = "override_count"
    /\ error_counts' = [error_counts EXCEPT !.now_playing = 0]
    /\ lock' = NoOwner
    /\ stable' = current_status
    /\ override_seen' = Some([title |-> h_args[h][1].title, uri |-> h_args[h][1].uri,
                              time |-> last_override_time])
    /\ h_args' = [h_args EXCEPT ![h] = None]
    /\ h_pc' = [h_pc EXCEPT ![h] = pc]
    /\ now_playing_fails' = 0
    /\ UNCHANGED <<current_status, stop_event, last_override_time, now, loop_vars, resolver_vars,
                   fetch_history, snapshot, volume_fails,
                   power_fail_since>>

(* Line 90 for a handler that serves the next request after this one. *)
OverrideCount(h) ==
    OverrideReturn(h, "idle")

(***************************************************************************)
(* The environment: the clock, and whoever sets stop_event (line 67).      *)
(***************************************************************************)
(* A second passes, up to the instant BootTime + limit, while the loop sleeps: *)
(* a poll cycle and a critical section take less than a second here, and a    *)
(* sleep that is over ends within the second.                                 *)
Advance(limit) ==
    /\ now < BootTime + limit
    /\ lock = NoOwner
    /\ loop_pc = "sleep"
    /\ now < wake
    /\ now' = now + 1
    /\ UNCHANGED <<current_status, error_counts, lock, stop_event, last_override_time,
                   loop_vars, stable, fetch_history, override_seen, handler_vars, resolver_vars,
                   fail_history>>

Shutdown ==
    /\ ~stop_event
    /\ stop_event' = TRUE
    /\ UNCHANGED <<current_status, error_counts, lock, last_override_time, now,
                   loop_vars, stable, fetch_history, override_seen, handler_vars, resolver_vars,
                   fail_history>>

(* The steps of the loop other than the skipped tick and the answer of *)
(* _fetch_now_playing.                                                 *)
CycleStep ==
    \/ LoopExit
    \/ LoopRefresh
    \/ \E status \in PowerStatuses : PowerSuccess(status)
    \/ PowerFailure
    \/ PowerRaises
    \/ \E reading \in VolumeReadings : VolumeSuccess(reading)
    \/ VolumeNoSpeaker
    \/ VolumeFailure
    \/ VolumeRaises
    \/ NowPlayingStore
    \/ NowPlayingCheck
    \/ NowPlayingRaises
    \/ CommitAcquire
    \/ CommitUpdate
    \/ CommitTimestamp
    \/ Wake

(* Line 138: _fetch_now_playing returns one of the answers. *)
NowPlayingStep(answers) ==
    \E result \in answers :
        \/ NowPlayingSuccess(result[1], result[2])
        \/ NowPlayingFailure(result[1], result[2])

PollStep ==
    \/ CycleStep
    \/ NowPlayingStep(NowPlayingAnswers)

LoopStep ==
    \/ LoopSkip
    \/ PollStep

HandlerStep ==
    \E h \in Handlers :
        \/ GetStatusAcquire(h)
        \/ GetStatusCopy(h)
        \/ GetStatusReturn(h)
        \/ SnapshotEdit(h)
        \/ \E args \in OverrideArgs : OverrideAcquire(h, args[1], args[2])
        \/ OverrideStatus(h)
        \/ OverrideTime(h)
        \/ OverrideCount(h)

(* The loop and the request handlers. *)
Next ==
    \/ LoopStep
    \/ HandlerStep
    \/ Advance(RequestHorizon)
    \/ Shutdown

Spec ==
    Init /\ [][Next]_vars

(* The loop alone, with no call of get_status or update_override: without an *)
(* override, last_override_time stays 0 and no tick is skipped.              *)
NextPolling ==
    \/ PollStep
    \/ Advance(Horizon)
    \/ Shutdown

SpecPolling ==
    Init /\ [][NextPolling]_vars

(***************************************************************************)
(* The loop up to its exit.  The thread is scheduled and the requests of a *)
(* poll cycle return (the gateway call times out after 5 s, the ADB probes *)
(* after 2 s and 3 s), so the steps of the loop are weakly fair; the sleep *)
(* of line 107 ends because the clock runs on.                             *)
(***************************************************************************)

(* The clock during the last sleep of a loop whose stop_event is set. *)
AdvanceStopped ==
    /\ stop_event
    /\ lock = NoOwner
    /\ loop_pc = "sleep"
    /\ now < wake
    /\ now' = now + 1
    /\ UNCHANGED <<current_status, error_counts, lock, stop_event, last_override_time,
                   loop_vars, stable, fetch_history, override_seen, handler_vars, resolver_vars,
                   fail_history>>

NextShutdown ==
    \/ PollStep
    \/ Advance(ShutdownHorizon)
    \/ AdvanceStopped
    \/ Shutdown

SpecShutdown ==
    /\ Init
    /\ [][NextShutdown]_vars
    /\ WF_vars(PollStep)
    /\ WF_vars(AdvanceStopped)

(* The loop alone, _fetch_now_playing returning any of its answers. *)
NextContent ==
    \/ CycleStep
    \/ NowPlayingStep(NowPlayingEdgeAnswers)
    \/ Advance(ContentHorizon)
    \/ Shutdown

SpecContent ==
    Init /\ [][NextContent]_vars

(* The loop and callers of update_override while the device answers the    *)
(* power request or not, has no speaker entry, and plays one content.       *)
OutageStep ==
    \/ LoopSkip
    \/ LoopRefresh
    \/ \E status \in PowerStatuses : PowerSuccess(status)
    \/ PowerFailure
    \/ VolumeNoSpeaker
    \/ \E result \in NowPlayingResults : NowPlayingSuccess(result[1], result[2])
    \/ CommitAcquire
    \/ CommitUpdate
    \/ CommitTimestamp
    \/ Wake

OverrideStep ==
    \E h \in Handlers :
        \/ \E args \in OverrideArgs : OverrideAcquire(h, args[1], args[2])
        \/ OverrideStatus(h)
        \/ OverrideTime(h)
        \/ OverrideCount(h)

NextOutage ==
    \/ OutageStep
    \/ OverrideStep
    \/ Advance(OutageHorizon)

SpecOutage ==
    Init /\ [][NextOutage]_vars

(***************************************************************************)
(* _get_now_playing_id on its own: applied once to each title of a set     *)
(* built from the keys of the map, texts around them and unmapped texts.   *)
(***************************************************************************)
ResolvePrefixes ==
    {<<>>, P_Something, K_NBA \o P_Space}

ResolveMiddles ==
    {MapKey(i) : i \in DOMAIN NOW_PLAYING_ID_MAP}
        \cup {T_totally_unknown_app, T_Disney, T_HDMI_1, <<>>}

ResolveSuffixes ==
    {<<>>, P_Kids, P_Space \o K_TV, P_Plus}

ResolveInputs ==
    {pre \o mid \o suf :
        pre \in ResolvePrefixes, mid \in ResolveMiddles, suf \in ResolveSuffixes}

InitResolve ==
    /\ InitStatusManager
    /\ resolve_title \in ResolveInputs
    /\ resolve_id = None
    /\ InitRequests

(* One call: lines 190-200. *)
Resolve ==
    /\ resolve_id = None
    /\ resolve_id' = Some(get_now_playing_id(resolve_title))
    /\ UNCHANGED <<current_status, error_counts, lock, stop_event, last_override_time,
                   now, loop_vars, stable, fetch_history, override_seen, handler_vars,
                   resolve_title, request_vars,
                   fail_history>>

NextResolve ==
    Resolve

SpecResolve ==
    InitResolve /\ [][NextResolve]_vars

(***************************************************************************)
(* make_sony_api_request (tv_utils.py) on its own: applied once to each    *)
(* thing the device can do with the request.                               *)
(***************************************************************************)
SonyExceptions ==
    {<<"R", "e", "a", "d", " ", "t", "i", "m", "e", "d", " ", "o", "u", "t", ".", " ", "(", "r", "e", "a", "d", " ", "t", "i", "m", "e", "o", "u", "t", "=", "5", ")">>, <<"C", "o", "n", "n", "e", "c", "t", "i", "o", "n", " ", "r", "e", "f", "u", "s", "e", "d">>, <<"N", "o", " ", "r", "o", "u", "t", "e", " ", "t", "o", " ", "h", "o", "s", "t">>}

SonyStatuses ==
    {200, 401, 403, 404, 500}

(* An entry of a JSON object. *)
Entry(key, v) ==
    key :> v

IdOne ==
    Entry(<<"i", "d">>, PyInt(1))

(* The bodies: the text of the response and what response.json() makes of *)
(* it, a decoded value or the exception of a body that is not JSON.       *)
SonyBodies ==
    { [text |-> <<"{", "r", "e", "s", "u", "l", "t", ":", " ", "[", "{", "s", "t", "a", "t", "u", "s", ":", " ", "a", "c", "t", "i", "v", "e", "}", "]", ",", " ", "i", "d", ":", " ", "1", "}">>,
       json |-> PyDict(Entry(<<"r", "e", "s", "u", "l", "t">>,
                    PyList(<<PyDict(Entry(<<"s", "t", "a", "t", "u", "s">>, PyStr(<<"a", "c", "t", "i", "v", "e">>)))>>)) @@ IdOne)],
      [text |-> <<"{", "r", "e", "s", "u", "l", "t", ":", " ", "[", "]", ",", " ", "i", "d", ":", " ", "1", "}">>,
       json |-> PyDict(Entry(<<"r", "e", "s", "u", "l", "t">>, PyList(<<>>)) @@ IdOne)],
      [text |-> <<"{", "i", "d", ":", " ", "1", "}">>,
       json |-> PyDict(IdOne)],
      [text |-> <<"{", "e", "r", "r", "o", "r", ":", " ", "[", "7", ",", " ", "I", "l", "l", "e", "g", "a", "l", " ", "S", "t", "a", "t", "e", "]", ",", " ", "i", "d", ":", " ", "1", "}">>,
       json |-> PyDict(Entry(<<"e", "r", "r", "o", "r">>,
                    PyList(<<PyInt(7), PyStr(<<"I", "l", "l", "e", "g", "a", "l", " ", "S", "t", "a", "t", "e">>)>>)) @@ IdOne)],
      [text |-> <<"{", "e", "r", "r", "o", "r", ":", " ", "[", "4", "0", "0", "0", "5", ",", " ", "D", "i", "s", "p", "l", "a", "y", " ", "I", "s", " ", "T", "u", "r", "n", "e", "d", " ", "o", "f", "f", "]", ",", " ", "i", "d", ":", " ", "1", "}">>,
       json |-> PyDict(Entry(<<"e", "r", "r", "o", "r">>,
                    PyList(<<PyInt(40005), PyStr(<<"D", "i", "s", "p", "l", "a", "y", " ", "I", "s", " ", "T", "u", "r", "n", "e", "d", " ", "o", "f", "f">>)>>)) @@ IdOne)],
      [text |-> <<"{", "e", "r", "r", "o", "r", ":", " ", "[", "4", "0", "3", ",", " ", "F", "o", "r", "b", "i", "d", "d", "e", "n", ",", " ", "n", "u", "l", "l", "]", ",", " ", "i", "d", ":", " ", "1", "}">>,
       json |-> PyDict(Entry(<<"e", "r", "r", "o", "r">>,
                    PyList(<<PyInt(403), PyStr(<<"F", "o", "r", "b", "i", "d", "d", "e", "n">>), PyNone>>)) @@ IdOne)],
      [text |-> <<"{", "e", "r", "r", "o", "r", ":", " ", "[", "7", "]", ",", " ", "i", "d", ":", " ", "1", "}">>,
       json |-> PyDict(Entry(<<"e", "r", "r", "o", "r">>, PyList(<<PyInt(7)>>)) @@ IdOne)],
      [text |-> <<"{", "e", "r", "r", "o", "r", ":", " ", "[", "]", ",", " ", "i", "d", ":", " ", "1", "}">>,
       json |-> PyDict(Entry(<<"e", "r", "r", "o", "r">>, PyList(<<>>)) @@ IdOne)],
      [text |-> <<"{", "e", "r", "r", "o", "r", ":", " ", "n", "u", "l", "l", "}">>,
       json |-> PyDict(Entry(<<"e", "r", "r", "o", "r">>, PyNone))],
      [text |-> <<"{", "e", "r", "r", "o", "r", ":", " ", "n", "o", "}">>,
       json |-> PyDict(Entry(<<"e", "r", "r", "o", "r">>, PyStr(<<"n", "o">>)))],
      [text |-> <<"[", "]">>,
       json |-> PyList(<<>>)],
      [text |-> <<"[", "e", "r", "r", "o", "r", "]">>,
       json |-> PyList(<<PyStr(<<"e", "r", "r", "o", "r">>)>>)],
      [text |-> <<"a", "n", " ", "e", "r", "r", "o", "r">>,
       json |-> PyStr(<<"a", "n", " ", "e", "r", "r", "o", "r">>)],
      [text |-> <<"n", "u", "l", "l">>,
       json |-> PyNone],
      [text |-> <<"<", "h", "t", "m", "l", ">">>,
       json |-> Raise(<<"E", "x", "p", "e", "c", "t", "i", "n", "g", " ", "v", "a", "l", "u", "e", ":", " ", "l", "i", "n", "e", " ", "1", " ", "c", "o", "l", "u", "m", "n", " ", "1", " ", "(", "c", "h", "a", "r", " ", "0", ")">>)],
      [text |-> <<>>,
       json |-> Raise(<<"E", "x", "p", "e", "c", "t", "i", "n", "g", " ", "v", "a", "l", "u", "e", ":", " ", "l", "i", "n", "e", " ", "1", " ", "c", "o", "l", "u", "m", "n", " ", "1", " ", "(", "c", "h", "a", "r", " ", "0", ")">>)] }

(* Line 60: session.post raises, or returns a response. *)
SonyOutcomes ==
    {Raise(e) : e \in SonyExceptions}
        \cup {[status_code |-> s, text |-> b.text, json |-> b.json] :
                 s \in SonyStatuses, b \in SonyBodies}

(* Lines 65-66: the result for a body that has an "error" key. *)
SonyApiError(result) ==
    LET error == GetItem(result, <<"e", "r", "r", "o", "r">>)
    IN  IF IsRaise(error) THEN error
        ELSE LET code == GetIndex(error, 0)
                 msg == GetIndex(error, 1)
             IN  IF IsRaise(code) THEN code
                 ELSE IF IsRaise(msg) THEN msg
                 ELSE [success |-> FALSE,
                       error |-> <<"S", "o", "n", "y", " ", "A", "P", "I", " ", "e", "r", "r", "o", "r", " ">> \o Format(code) \o <<":", " ">> \o Format(msg)]

(* Lines 60-69 with every body reported as data, whatever its keys. *)
SonyTryNoErrorKey(outcome) ==
    IF IsRaise(outcome) THEN outcome
    ELSE IF outcome.status_code = 200
         THEN LET result == outcome.json
              IN  IF IsRaise(result) THEN result
                  ELSE [success |-> TRUE, data |-> result]
         ELSE [success |-> FALSE,
               error |-> <<"H", "T", "T", "P", " ">> \o Str(outcome.status_code) \o <<":", " ">> \o outcome.text]

(* Lines 60-69: the body of the try, which returns a result or raises. *)
SonyTry(outcome) ==
    IF IsRaise(outcome) THEN outcome
    ELSE IF outcome.status_code = 200
         THEN LET result == outcome.json
              IN  IF IsRaise(result) THEN result
                  ELSE IF ~IsContainer(result) THEN NotContainer
                  ELSE IF Contains(<<"e", "r", "r", "o", "r">>, result) THEN SonyApiError(result)
                  ELSE [success |-> TRUE, data |-> result]
         ELSE [success |-> FALSE,
               error |-> <<"H", "T", "T", "P", " ">> \o Str(outcome.status_code) \o <<":", " ">> \o outcome.text]

(* Lines 59-71: what the try raises becomes a failure carrying str(e). *)
make_sony_api_request(outcome) ==
    LET returned == SonyTry(outcome)
    IN  IF IsRaise(returned) THEN [success |-> FALSE, error |-> returned.raise]
        ELSE returned

InitSony ==
    /\ InitStatusManager
    /\ resolve_title = <<>>
    /\ resolve_id = None
    /\ sony_outcome \in {Some(o) : o \in SonyOutcomes}
    /\ sony_result = None
    /\ fetch_pc = "idle"
    /\ fetch_res = None
    /\ fetch_local = [title |-> <<>>, uri |-> <<>>]
    /\ fetch_probe = None
    /\ fetch_calls = <<>>
    /\ fetch_result = None

(* One call: lines 44-71. *)
SonyRequest ==
    /\ sony_result = None
    /\ sony_result' = Some(make_sony_api_request(sony_outcome[1]))
    /\ UNCHANGED <<current_status, error_counts, lock, stop_event, last_override_time,
                   now, loop_vars, stable, fetch_history, override_seen, handler_vars,
                   resolve_title, resolve_id, sony_outcome,
                   fetch_pc, fetch_res, fetch_local, fetch_probe, fetch_calls, fetch_result,
                   fail_history>>

NextSony ==
    SonyRequest

SpecSony ==
    InitSony /\ [][NextSony]_vars

(***************************************************************************)
(* _fetch_now_playing and the functions of tv_utils.py it calls.           *)
(***************************************************************************)

(* friendly_input_name, tv_utils.py lines 73-89; None is the empty text   *)
(* here: each caller uses the result as `friendly_input_name(uri) or uri`. *)
friendly_input_name(uri) ==
    IF uri = <<>> THEN <<>>
    ELSE IF IsSubstring(<<"h", "d", "m", "i">>, uri)
         THEN LET parts == Split(uri, <<"p", "o", "r", "t", "=">>)
              IN  IF Len(parts) < 2 THEN <<"H", "D", "M", "I">>
                  ELSE <<"H", "D", "M", "I", " ">> \o Split(parts[2], <<"&">>)[1]
    ELSE IF StartsWith(uri, <<"t", "v", ":">>) THEN <<"T", "V">>
    ELSE IF IsSubstring(<<"c", "o", "m", "p", "o", "s", "i", "t", "e">>, uri) THEN <<"A", "V">>
    ELSE IF IsSubstring(<<"c", "o", "m", "p", "o", "n", "e", "n", "t">>, uri) THEN <<"C", "o", "m", "p", "o", "n", "e", "n", "t">>
    ELSE <<>>

(* The dict known of resolve_app_name, in its order: tv_utils.py 95-100. *)
KnownApps ==
    << <<<<"n", "e", "t", "f", "l", "i", "x">>, <<"N", "e", "t", "f", "l", "i", "x">>>>, <<<<"y", "o", "u", "t", "u", "b", "e">>, <<"Y", "o", "u", "T", "u", "b", "e">>>>,
       <<<<"d", "i", "s", "n", "e", "y">>, <<"D", "i", "s", "n", "e", "y", "+">>>>, <<<<"a", "m", "a", "z", "o", "n">>, <<"P", "r", "i", "m", "e", " ", "V", "i", "d", "e", "o">>>>,
       <<<<"a", "p", "p", "l", "e", ".", "a", "t", "v", "e">>, <<"A", "p", "p", "l", "e", " ", "T", "V">>>>, <<<<"h", "b", "o">>, <<"H", "B", "O", " ", "M", "a", "x">>>>,
       <<<<"s", "p", "o", "t", "i", "f", "y">>, <<"S", "p", "o", "t", "i", "f", "y">>>>, <<<<"p", "l", "e", "x">>, <<"P", "l", "e", "x">>>>,
       <<<<"t", "w", "i", "t", "c", "h">>, <<"T", "w", "i", "t", "c", "h">>>>, <<<<"c", "r", "u", "n", "c", "h", "y", "r", "o", "l", "l">>, <<"C", "r", "u", "n", "c", "h", "y", "r", "o", "l", "l">>>>,
       <<<<"d", "a", "z", "n">>, <<"D", "A", "Z", "N">>>>, <<<<"a", "t", "b", "a", "t">>, <<"M", "L", "B">>>> >>

(* resolve_app_name, tv_utils.py lines 91-112. *)
resolve_app_name(app_uri) ==
    IF app_uri = <<>> THEN <<"A", "p", "p">>
    ELSE LET lower_uri == Lower(app_uri)
             hits == {i \in DOMAIN KnownApps : IsSubstring(KnownApps[i][1], lower_uri)}
         IN  IF hits # {}
             THEN KnownApps[CHOOSE i \in hits : \A j \in hits : i <= j][2]
             ELSE IF IsSubstring(<<"n", "b", "a">>, lower_uri) THEN <<"N", "B", "A">>
             ELSE LET parts == Split(app_uri, <<".">>) IN parts[Len(parts)]

(* The loop of get_hdmi_labels, tv_utils.py lines 120-122, from entry i   *)
(* on: labels maps a uri to its label, a later entry replacing an earlier. *)
RECURSIVE LabelsFrom(_, _, _)
LabelsFrom(inputs, i, labels) ==
    IF i > Len(inputs) THEN labels
    ELSE LET inp == inputs[i]
         IN  IF inp.type = "dict" /\ GetText(inp, <<"u", "r", "i">>) # <<>>
             THEN LabelsFrom(inputs, i + 1,
                             [u \in DOMAIN labels \cup {GetText(inp, <<"u", "r", "i">>)} |->
                                 IF u = GetText(inp, <<"u", "r", "i">>) THEN GetText(inp, <<"l", "a", "b", "e", "l">>)
                                 ELSE labels[u]])
             ELSE LabelsFrom(inputs, i + 1, labels)

(* get_hdmi_labels, tv_utils.py lines 114-123, on the result of its       *)
(* request: the labels, or what line 119 or the loop raises.              *)
get_hdmi_labels(result) ==
    IF result.success /\ Contains(<<"r", "e", "s", "u", "l", "t">>, result.data)
    THEN LET listed == GetItem(result.data, <<"r", "e", "s", "u", "l", "t">>)
         IN  IF IsRaise(listed) THEN listed
             ELSE LET inputs == IF Truthy(listed) THEN GetIndex(listed, 0) ELSE PyList(<<>>)
                  IN  IF IsRaise(inputs) THEN inputs
                      ELSE IF inputs.type = "list"
                           THEN PyDict(LabelsFrom(inputs.value, 1, <<>>))
                      ELSE IF inputs.type \in {"str", "dict"} THEN PyDict(<<>>)
                      ELSE Raise(<<"o", "b", "j", "e", "c", "t", " ", "i", "s", " ", "n", "o", "t", " ", "i", "t", "e", "r", "a", "b", "l", "e">>)
    ELSE PyDict(<<>>)

(* Lines 168-170 without the return of lines 171-172: the probe follows   *)
(* whatever the title.                                                    *)
SonyReturnThenProbe(title, uri) ==
    [pc |-> "adb_connect", title |-> title, uri |-> uri, result |-> None]

(* Lines 168-172 and the fall to line 174: the title made of the uri when *)
(* the title is empty, and the return when there is a title.              *)
SonyReturn(title, uri) ==
    LET named == IF title = <<>> /\ uri # <<>>
                 THEN (IF friendly_input_name(uri) # <<>> THEN friendly_input_name(uri)
                       ELSE uri)
                 ELSE title
    IN  IF named # <<>>
        THEN [pc |-> "return", title |-> named, uri |-> uri, result |-> Some([title |-> named, uri |-> uri])]
        ELSE [pc |-> "adb_connect", title |-> named, uri |-> uri, result |-> None]

(* The return of an exception that _fetch_now_playing does not catch. *)
FetchRaises(e) ==
    [pc |-> "return", title |-> <<>>, uri |-> <<>>, result |-> Some(e)]

(* Without a structured answer the function goes to line 174. *)
ToProbe ==
    [pc |-> "adb_connect", title |-> <<>>, uri |-> <<>>, result |-> None]

(* Lines 159-172 on the result res of the request of line 158, up to the  *)
(* call of get_hdmi_labels at line 165.                                    *)
SonyPhase(res) ==
    IF ~(res.success /\ Contains(<<"r", "e", "s", "u", "l", "t">>, res.data)) THEN ToProbe
    ELSE LET listed == GetItem(res.data, <<"r", "e", "s", "u", "l", "t">>)
         IN  IF IsRaise(listed) THEN FetchRaises(listed)
             ELSE IF ~Truthy(listed) THEN ToProbe
             ELSE LET info == GetIndex(listed, 0)
                  IN  IF IsRaise(info) THEN FetchRaises(info)
                      ELSE IF info.type # "dict"
                           THEN FetchRaises(Raise(<<"o", "b", "j", "e", "c", "t", " ", "h", "a", "s", " ", "n", "o", " ", "a", "t", "t", "r", "i", "b", "u", "t", "e", " ", "'", "g", "e", "t", "'">>))
                      ELSE LET title == GetText(info, <<"t", "i", "t", "l", "e">>)
                               uri == GetText(info, <<"u", "r", "i">>)
                           IN  IF uri # <<>> /\ IsSubstring(<<"h", "d", "m", "i">>, uri)
                               THEN [pc |-> "labels", title |-> title, uri |-> uri,
                                     result |-> None]
                               ELSE SonyReturn(title, uri)

(* Line 166 on the labels get_hdmi_labels returned, then lines 168-172. *)
LabelPhase(labels, uri) ==
    IF IsRaise(labels) THEN FetchRaises(labels)
    ELSE SonyReturn(IF uri \in DOMAIN labels.value /\ labels.value[uri] # <<>>
                    THEN labels.value[uri]
                    ELSE IF friendly_input_name(uri) # <<>> THEN friendly_input_name(uri)
                    ELSE uri,
                    uri)

(* Lines 179-184 and 188 on the stdout of the dumpsys command. *)
ProbeResult(stdout) ==
    LET output == Strip(stdout)
    IN  IF output # <<>> /\ IsSubstring(<<"u", "0", " ">>, output)
        THEN LET after == Split(output, <<"u", "0", " ">>)
                 pkg == Remove(Strip(Split(after[Len(after)], <<"/">>)[1]), "}")
             IN  IF pkg # <<>> THEN [title |-> resolve_app_name(pkg), uri |-> pkg]
                 ELSE [title |-> K_Unknown, uri |-> <<>>]
        ELSE [title |-> K_Unknown, uri |-> <<>>]

(* A response 200 whose body decodes to json. *)
Answer(json) ==
    [status_code |-> 200, text |-> <<>>, json |-> json]

(* A body {"result": [...], "id": 1}. *)
ResultBody(listed) ==
    PyDict(Entry(<<"r", "e", "s", "u", "l", "t">>, listed) @@ IdOne)

(* An entry of the result of getPlayingContentInfo. *)
Info(title, uri) ==
    PyDict(Entry(<<"t", "i", "t", "l", "e">>, PyStr(title)) @@ Entry(<<"u", "r", "i">>, PyStr(uri))
               @@ Entry(<<"s", "o", "u", "r", "c", "e">>, PyStr(<<"e", "x", "t", "I", "n", "p", "u", "t">>)))

IllegalState ==
    Answer(PyDict(Entry(<<"e", "r", "r", "o", "r">>, PyList(<<PyInt(7), PyStr(<<"I", "l", "l", "e", "g", "a", "l", " ", "S", "t", "a", "t", "e">>)>>)) @@ IdOne))

TimedOut ==
    Raise(<<"R", "e", "a", "d", " ", "t", "i", "m", "e", "d", " ", "o", "u", "t", ".", " ", "(", "r", "e", "a", "d", " ", "t", "i", "m", "e", "o", "u", "t", "=", "5", ")">>)

(* What the device does with getPlayingContentInfo, line 158. *)
FetchQueryOutcomes ==
    { TimedOut,
      IllegalState,
      [status_code |-> 403, text |-> <<"F", "o", "r", "b", "i", "d", "d", "e", "n">>, json |-> Raise(<<"E", "x", "p", "e", "c", "t", "i", "n", "g", " ", "v", "a", "l", "u", "e">>)],
      Answer(ResultBody(PyList(<<Info(<<"H", "D", "M", "I", " ", "2">>, <<"e", "x", "t", "I", "n", "p", "u", "t", ":", "h", "d", "m", "i", "?", "p", "o", "r", "t", "=", "2">>)>>))),
      Answer(ResultBody(PyList(<<Info(<<>>, <<"e", "x", "t", "I", "n", "p", "u", "t", ":", "h", "d", "m", "i", "?", "p", "o", "r", "t", "=", "1", "&", "x", "=", "0">>)>>))),
      Answer(ResultBody(PyList(<<Info(<<>>, <<"e", "x", "t", "I", "n", "p", "u", "t", ":", "h", "d", "m", "i">>)>>))),
      Answer(ResultBody(PyList(<<Info(<<"B", "B", "C", " ", "O", "n", "e">>, <<"t", "v", ":", "d", "v", "b", "t", "?", "t", "r", "i", "p", "=", "1", ".", "2", ".", "3">>)>>))),
      Answer(ResultBody(PyList(<<Info(<<>>, <<"t", "v", ":", "d", "v", "b", "t">>)>>))),
      Answer(ResultBody(PyList(<<Info(<<>>, <<"e", "x", "t", "I", "n", "p", "u", "t", ":", "c", "o", "m", "p", "o", "s", "i", "t", "e", "?", "p", "o", "r", "t", "=", "1">>)>>))),
      Answer(ResultBody(PyList(<<Info(<<>>, <<"e", "x", "t", "I", "n", "p", "u", "t", ":", "c", "o", "m", "p", "o", "n", "e", "n", "t", "?", "p", "o", "r", "t", "=", "1">>)>>))),
      Answer(ResultBody(PyList(<<Info(<<>>, <<"e", "x", "t", "I", "n", "p", "u", "t", ":", "w", "i", "d", "i", "?", "p", "o", "r", "t", "=", "1">>)>>))),
      Answer(ResultBody(PyList(<<PyDict(Entry(<<"t", "i", "t", "l", "e">>, PyStr(<<"N", "e", "t", "f", "l", "i", "x">>)))>>))),
      Answer(ResultBody(PyList(<<Info(<<>>, <<>>)>>))),
      Answer(ResultBody(PyList(<<PyDict(<<>>)>>))),
      Answer(ResultBody(PyList(<<>>))),
      Answer(PyDict(IdOne)),
      Answer(PyList(<<>>)),
      Answer(ResultBody(PyList(<<PyNone>>))),
      Answer(ResultBody(PyDict(IdOne))) }

(* An entry of the result of getCurrentExternalInputsStatus. *)
Input(uri, label) ==
    PyDict(Entry(<<"u", "r", "i">>, PyStr(uri)) @@ Entry(<<"l", "a", "b", "e", "l">>, PyStr(label)))

(* What the device does with the request of get_hdmi_labels. *)
FetchLabelOutcomes ==
    { TimedOut,
      IllegalState,
      Answer(ResultBody(PyList(<<PyList(<<Input(<<"e", "x", "t", "I", "n", "p", "u", "t", ":", "h", "d", "m", "i", "?", "p", "o", "r", "t", "=", "1", "&", "x", "=", "0">>, <<>>),
                                         Input(<<"e", "x", "t", "I", "n", "p", "u", "t", ":", "h", "d", "m", "i", "?", "p", "o", "r", "t", "=", "2">>, <<"P", "S", "5">>),
                                         PyDict(Entry(<<"l", "a", "b", "e", "l">>, PyStr(<<"S", "w", "i", "t", "c", "h">>)))>>)>>))),
      Answer(ResultBody(PyList(<<PyList(<<Input(<<"e", "x", "t", "I", "n", "p", "u", "t", ":", "h", "d", "m", "i", "?", "p", "o", "r", "t", "=", "2">>, <<"P", "S", "5">>),
                                         Input(<<"e", "x", "t", "I", "n", "p", "u", "t", ":", "h", "d", "m", "i", "?", "p", "o", "r", "t", "=", "2">>, <<"S", "w", "i", "t", "c", "h">>),
                                         PyNone>>)>>))),
      Answer(ResultBody(PyList(<<>>))),
      Answer(ResultBody(PyList(<<PyNone>>))),
      Answer(ResultBody(PyDict(IdOne))) }

(* What `adb connect` does, line 176: it ends, with a return code that    *)
(* the code does not read, or subprocess.run raises.                      *)
AdbConnectOutcomes ==
    { [returncode |-> 0], [returncode |-> 1],
      Raise(<<"N", "o", " ", "s", "u", "c", "h", " ", "f", "i", "l", "e", " ", "o", "r", " ", "d", "i", "r", "e", "c", "t", "o", "r", "y", ":", " ", "'", "a", "d", "b", "'">>),
      Raise(<<"C", "o", "m", "m", "a", "n", "d", " ", "t", "i", "m", "e", "d", " ", "o", "u", "t", " ", "a", "f", "t", "e", "r", " ", "2", " ", "s", "e", "c", "o", "n", "d", "s">>) }

(* The standard outputs of the dumpsys command, line 178. *)
AdbStdouts ==
    << <<" ", " ", "m", "C", "u", "r", "r", "e", "n", "t", "F", "o", "c", "u", "s", "=", "W", "i", "n", "d", "o", "w", "{", "1", "a", "2", "b", "3", "c", " ", "u", "0", " ", "c", "o", "m", ".", "n", "e", "t", "f", "l", "i", "x", ".", "n", "i", "n", "j", "a", "/", "c", "o", "m", ".", "n", "e", "t", "f", "l", "i", "x", ".", "n", "i", "n", "j", "a", ".", "M", "a", "i", "n", "A", "c", "t", "i", "v", "i", "t", "y", "}">>
           \o <<"\n">>,
       <<"m", "C", "u", "r", "r", "e", "n", "t", "F", "o", "c", "u", "s", "=", "W", "i", "n", "d", "o", "w", "{", "9", "f", "8", "e", " ", "u", "0", " ", "c", "o", "m", ".", "g", "o", "o", "g", "l", "e", ".", "a", "n", "d", "r", "o", "i", "d", ".", "t", "v", "l", "a", "u", "n", "c", "h", "e", "r", "/", "c", "o", "m", ".", "g", "o", "o", "g", "l", "e", ".", "a", "n", "d", "r", "o", "i", "d", ".", "t", "v", "l", "a", "u", "n", "c", "h", "e", "r", ".", "M", "a", "i", "n", "A", "c", "t", "i", "v", "i", "t", "y", "}">>,
       <<"m", "C", "u", "r", "r", "e", "n", "t", "F", "o", "c", "u", "s", "=", "W", "i", "n", "d", "o", "w", "{", "7", "7", "a", "a", " ", "u", "0", " ", "t", "v", ".", "P", "l", "e", "x", ".", "A", "p", "p", "/", "t", "v", ".", "p", "l", "e", "x", ".", "M", "a", "i", "n", "}">>,
       <<"m", "C", "u", "r", "r", "e", "n", "t", "F", "o", "c", "u", "s", "=", "W", "i", "n", "d", "o", "w", "{", "5", "c", "5", "c", " ", "u", "0", " ", "c", "o", "m", ".", "n", "b", "a", ".", "a", "p", "p", "/", "c", "o", "m", ".", "n", "b", "a", ".", "M", "a", "i", "n", "}">>,
       <<"m", "C", "u", "r", "r", "e", "n", "t", "F", "o", "c", "u", "s", "=", "W", "i", "n", "d", "o", "w", "{", "c", "0", "d", "e", " ", "u", "0", " ", "S", "t", "a", "t", "u", "s", "B", "a", "r", "}">>,
       <<"m", "C", "u", "r", "r", "e", "n", "t", "F", "o", "c", "u", "s", "=", "W", "i", "n", "d", "o", "w", "{", "c", "0", "d", "e", " ", "u", "0", " ", "/", "x", "}">>,
       <<"m", "C", "u", "r", "r", "e", "n", "t", "F", "o", "c", "u", "s", "=", "n", "u", "l", "l">>,
       <<"\n">>,
       <<>> >>

(* What the dumpsys command does: it ends with a standard output, or     *)
(* subprocess.run raises.                                                 *)
AdbDumpOutcomes ==
    {[stdout |-> AdbStdouts[i]] : i \in DOMAIN AdbStdouts}
        \cup {Raise(<<"C", "o", "m", "m", "a", "n", "d", " ", "t", "i", "m", "e", "d", " ", "o", "u", "t", " ", "a", "f", "t", "e", "r", " ", "3", " ", "s", "e", "c", "o", "n", "d", "s">>)}

(* Line 188. *)
FetchUnknown ==
    [title |-> K_Unknown, uri |-> <<>>]

fetch_frame ==
    <<current_status, error_counts, lock, stop_event, last_override_time, now, loop_vars,
      stable, fetch_history, override_seen, handler_vars, resolve_title, resolve_id,
      sony_outcome, sony_result, fail_history>>

(* Line 158 and the lines 159-172 that follow it without a request. *)
FetchQuery ==
    /\ loop_pc = "now_playing_wait"
    /\ fetch_pc = "idle"
    /\ \E outcome \in FetchQueryOutcomes :
          LET res == make_sony_api_request(outcome)
              step == SonyPhase(res)
          IN  /\ fetch_res' = Some(res)
              /\ fetch_pc' = step.pc
              /\ fetch_local' = [title |-> step.title, uri |-> step.uri]
              /\ fetch_result' = step.result
    /\ fetch_calls' = Append(fetch_calls, "getPlayingContentInfo")
    /\ UNCHANGED <<fetch_frame, fetch_probe>>

(* Lines 165-172: the request of get_hdmi_labels and what follows it. *)
FetchLabels ==
    /\ loop_pc = "now_playing_wait"
    /\ fetch_pc = "labels"
    /\ \E outcome \in FetchLabelOutcomes :
          LET labels == get_hdmi_labels(make_sony_api_request(outcome))
              step == LabelPhase(labels, fetch_local.uri)
          IN  /\ fetch_pc' = step.pc
              /\ fetch_local' = [title |-> step.title, uri |-> step.uri]
              /\ fetch_result' = step.result
    /\ fetch_calls' = Append(fetch_calls, "getCurrentExternalInputsStatus")
    /\ UNCHANGED <<fetch_frame, fetch_res, fetch_probe>>

(* Line 176, and lines 185-188 when it raises. *)
FetchAdbConnect ==
    /\ loop_pc = "now_playing_wait"
    /\ fetch_pc = "adb_connect"
    /\ \E outcome \in AdbConnectOutcomes :
          /\ fetch_probe' = Some(outcome)
          /\ IF IsRaise(outcome)
             THEN fetch_pc' = "return" /\ fetch_result' = Some(FetchUnknown)
             ELSE fetch_pc' = "adb_dump" /\ fetch_result' = fetch_result
    /\ fetch_calls' = Append(fetch_calls, "adb connect")
    /\ UNCHANGED <<fetch_frame, fetch_res, fetch_local>>

(* Lines 177-188. *)
FetchAdbDump ==
    /\ loop_pc = "now_playing_wait"
    /\ fetch_pc = "adb_dump"
    /\ \E outcome \in AdbDumpOutcomes :
          /\ fetch_probe' = Some(outcome)
          /\ fetch_result' = Some(IF IsRaise(outcome) THEN FetchUnknown
                                  ELSE ProbeResult(outcome.stdout))
    /\ fetch_pc' = "return"
    /\ fetch_calls' = Append(fetch_calls, "adb shell dumpsys")
    /\ UNCHANGED <<fetch_frame, fetch_res, fetch_local>>

(* Line 138: _fetch_now_playing returns to _refresh_status, or raises. *)
FetchReturn ==
    /\ fetch_pc = "return"
    /\ IF IsRaise(fetch_result[1]) THEN NowPlayingRaises
       ELSE \/ NowPlayingSuccess(fetch_result[1].title, fetch_result[1].uri)
            \/ NowPlayingFailure(fetch_result[1].title, fetch_result[1].uri)

(* The first poll cycle, its now-playing fetch taken request by request. *)
NextFetch ==
    \/ LoopRefresh
    \/ \E status \in PowerStatuses : PowerSuccess(status)
    \/ PowerFailure
    \/ \E reading \in VolumeReadings : VolumeSuccess(reading)
    \/ VolumeNoSpeaker
    \/ VolumeFailure
    \/ FetchQuery
    \/ FetchLabels
    \/ FetchAdbConnect
    \/ FetchAdbDump
    \/ FetchReturn
    \/ NowPlayingStore
    \/ NowPlayingCheck
    \/ CommitAcquire
    \/ CommitUpdate
    \/ CommitTimestamp

SpecFetch ==
    Init /\ [][NextFetch]_vars

(***************************************************************************)
(* Two threads that each call update_override once, beside the first poll  *)
(* cycle of the loop up to its commit.                                     *)
(***************************************************************************)
Callers ==
    {"h1", "h2"}

CallerArgs ==
    OverrideArgs \cup {<<K_Plex, <<"u", "r", "i", ":", "y">>>>}

InitCallers ==
    /\ InitManager(Callers)
    /\ resolve_title = <<>>
    /\ resolve_id = None
    /\ InitRequests

(* A call of update_override by a caller that makes no other call. *)
CallerStep ==
    \E h \in Callers :
        \/ \E args \in CallerArgs : OverrideAcquire(h, args[1], args[2])
        \/ OverrideStatus(h)
        \/ OverrideTime(h)
        \/ OverrideReturn(h, "done")

(* Lines 95-149: the loop up to the commit of its poll cycle. *)
BeforeCommitStep ==
    \/ LoopSkip
    \/ LoopRefresh
    \/ \E status \in PowerStatuses : PowerSuccess(status)
    \/ PowerFailure
    \/ \E reading \in VolumeReadings : VolumeSuccess(reading)
    \/ VolumeNoSpeaker
    \/ VolumeFailure
    \/ NowPlayingStep(NowPlayingAnswers)
    \/ NowPlayingStore
    \/ NowPlayingCheck

NextCallers ==
    \/ CallerStep
    \/ BeforeCommitStep

SpecCallers ==
    InitCallers /\ [][NextCallers]_vars

(***************************************************************************)
(* Properties.                                                             *)
(***************************************************************************)
CycleStates ==
    InFlight \cup {"now_playing_store", "now_playing_check", "commit", "commit_update", "commit_timestamp"}

OverrideId ==
    get_now_playing_id(override_seen[1].title)

(* C1: once update_override(t, u) has returned, no commit of the background *)
(* loop within the cool-down window that follows changes title, uri or      *)
(* now_playing_id away from the values the override wrote.                  *)
C1_CommitKeepsOverride ==
    [][(/\ loop_pc = "commit_update"
        /\ loop_pc' = "commit_timestamp"
        /\ override_seen # None
        /\ now - override_seen[1].time < CoolDown
        /\ current_status.title = override_seen[1].title
        /\ current_status.uri = override_seen[1].uri
        /\ current_status.now_playing_id = OverrideId)
       => (/\ current_status'.title = current_status.title
           /\ current_status'.uri = current_status.uri
           /\ current_status'.now_playing_id = current_status.now_playing_id)]_vars

(* C2: a tick of the loop that begins less than the cool-down window after  *)
(* the last override goes straight to the sleep and leaves every field of   *)
(* the record (power, volume, muted, title, uri, now_playing_id, timestamp) *)
(* as it was.                                                               *)
C2_SuppressedTick ==
    [][(/\ loop_pc = "top"
        /\ loop_pc' # "top"
        /\ ~stop_event
        /\ now - last_override_time < CoolDown)
       => (/\ loop_pc' = "sleep"
           /\ current_status' = current_status)]_vars

(* A tick was skipped: the sleep began at this instant, 1 to 4 seconds     *)
(* after an override, with the record still carrying the override.         *)
C2_Witness ==
    /\ loop_pc = "sleep"
    /\ wake = now + poll_interval
    /\ now - last_override_time > 0
    /\ now - last_override_time < CoolDown
    /\ current_status.title = K_Spotify
    /\ current_status.timestamp = Some(last_override_time)

(* C3: after each poll cycle of a run of 1 to max_error_iterations failed   *)
(* power fetches that follows a successful one, the cached power is the    *)
(* last successfully fetched status.                                       *)
C3_GraceKeepsLastFetched ==
    (/\ loop_pc = "sleep"
     /\ power_ok # None
     /\ power_fails >= 1
     /\ power_fails <= max_error_iterations)
    => current_status.power = power_ok[1]

(* C4: once max_error_iterations + 1 or more power fetches have failed in  *)
(* a row, the cached power after the poll cycle is "offline".              *)
C4_OfflinePastThreshold ==
    (loop_pc = "sleep" /\ power_fails >= max_error_iterations + 1)
    => current_status.power = "offline"

(* C5: after every poll cycle the cached volume and muted are those of the *)
(* last successful volume fetch, or 0 and False when none succeeded yet.   *)
C5_VolumeIsLastFetched ==
    loop_pc = "sleep"
    => IF volume_ok = None
       THEN current_status.volume = 0 /\ current_status.muted = FALSE
       ELSE /\ current_status.volume = volume_ok[1].volume
            /\ current_status.muted = volume_ok[1].muted

(* C6: a get_status that runs right after update_override(t, u) returned,  *)
(* in the same second and with the loop running, returns title t, uri u    *)
(* and now_playing_id of t, and the now_playing counter is 0.              *)
C6_ReadAfterOverride ==
    [][\A h \in Handlers :
        (/\ h_pc[h] = "get_status_copy"
         /\ h_pc'[h] = "get_status_return"
         /\ override_seen # None
         /\ override_seen[1].time = now)
        => (/\ snapshot'[h][1].title = override_seen[1].title
            /\ snapshot'[h][1].uri = override_seen[1].uri
            /\ snapshot'[h][1].now_playing_id = OverrideId
            /\ error_counts.now_playing = 0)]_vars

(* C7: the copy a get_status returns is the whole record as the last       *)
(* completed commit or override left it, never a record in which a commit  *)
(* or override has written some of its fields and not yet the others.      *)
C7_SnapshotIsWholeRecord ==
    [][\A h \in Handlers :
        (h_pc[h] = "get_status_copy" /\ h_pc'[h] = "get_status_return")
        => snapshot'[h] = Some(stable)]_vars

(* A get_status returned the previous record while the loop, which had to  *)
(* wait for the reader, is in the middle of the commit that follows.       *)
C7_Witness ==
    \E h \in Handlers :
        /\ h_pc[h] = "get_status_return"
        /\ loop_pc = "commit_timestamp"
        /\ snapshot[h] = Some(stable)
        /\ current_status # stable

(* The reference of C8: the value of the key equal to the title, else the  *)
(* value of the first key in declaration order that occurs in it, else 0.  *)
ReferenceId(title) ==
    LET exact == {i \in DOMAIN NOW_PLAYING_ID_MAP : MapKey(i) = title}
        inside == {i \in DOMAIN NOW_PLAYING_ID_MAP : IsSubstring(MapKey(i), title)}
    IN  IF exact # {} THEN MapVal(CHOOSE i \in exact : TRUE)
        ELSE IF inside # {}
             THEN MapVal(CHOOSE i \in inside : \A j \in inside : i <= j)
             ELSE 0

(* C8: _get_now_playing_id returns an integer for every title, equal to    *)
(* the reference; "Netflix" gives 100, "PS5" 10, "Something Netflix Kids"  *)
(* 100 and "totally-unknown-app" 0.                                        *)
C8_ResolveMatchesReference ==
    resolve_id # None
    => /\ resolve_id[1] \in Nat
       /\ resolve_id[1] = ReferenceId(resolve_title)
       /\ resolve_title = K_Netflix => resolve_id[1] = 100
       /\ resolve_title = K_PS5 => resolve_id[1] = 10
       /\ resolve_title = T_Something_Netflix_Kids => resolve_id[1] = 100
       /\ resolve_title = T_totally_unknown_app => resolve_id[1] = 0

C8_Witness ==
    /\ resolve_title = T_Something_Netflix_Kids
    /\ resolve_id = Some(100)

(* C9: the loop never holds the lock while one of its device requests is   *)
(* in flight; it takes the lock once per poll cycle, for the commit; and a *)
(* get_status finds the lock free whenever the loop waits for the device.  *)
C9_NoLockAcrossRequests ==
    /\ loop_pc \in InFlight \cup {"now_playing_store", "now_playing_check", "commit"}
           => lock # "loop" /\ cycle_acquires = 0
    /\ loop_pc \in {"commit_update", "commit_timestamp"}
           => lock = "loop" /\ cycle_acquires = 1
    /\ \A h \in Handlers :
           (loop_pc \in InFlight /\ h_pc[h] = "idle") => ENABLED GetStatusAcquire(h)

(* A handler is inside get_status while the loop waits for the device.     *)
C9_Witness ==
    \E h \in Handlers :
        /\ loop_pc = "volume_wait"
        /\ h_pc[h] = "get_status_copy"
        /\ lock = h

(* C10: a failed fetch or an exception never ends the loop: a poll cycle   *)
(* is left only for the sleep, the loop has exited only when stop_event is *)
(* set, a sleep that is over can be left, and get_status still returns a   *)
(* copy of the record.                                                     *)
C10_LoopSurvivesFailures ==
    /\ [](loop_pc = "exited" => stop_event)
    /\ []((loop_pc = "sleep" /\ now >= wake) => ENABLED Wake)
    /\ [][(loop_pc \in CycleStates /\ loop_pc' \notin CycleStates)
          => loop_pc' = "sleep"]_vars
    /\ [][\A h \in Handlers :
            (h_pc[h] = "get_status_copy" /\ h_pc'[h] # h_pc[h])
            => snapshot'[h] = Some(current_status)]_vars

(* The loop polls again after a cycle that an exception cut short: no      *)
(* commit and no override has happened, and it is in its second cycle.     *)
C10_Witness ==
    /\ loop_pc = "power_wait"
    /\ now >= BootTime + poll_interval
    /\ current_status.timestamp = None
    /\ last_override_time = 0
    /\ ~stop_event

(* C11: once stop_event is set, no poll cycle starts any more (the poll or *)
(* sleep in progress runs to its end), and the loop eventually exits.      *)
C11_StopEndsLoop ==
    /\ [][stop_event => ~(loop_pc \notin CycleStates /\ loop_pc' \in CycleStates)]_vars
    /\ [][(stop_event /\ loop_pc = "top" /\ loop_pc' # "top") => loop_pc' = "exited"]_vars
    /\ stop_event ~> (loop_pc = "exited")

(* The loop has exited at the end of a sleep that was under way when the   *)
(* stop_event was set, after a poll that committed.                        *)
C11_Witness ==
    /\ loop_pc = "exited"
    /\ stop_event
    /\ now = wake
    /\ current_status.timestamp = Some(now - poll_interval)

(* A step of get_status by handler h: the lock is taken, the copy is made, *)
(* or the call is over.                                                    *)
GetStatusStep(h) ==
    /\ h_pc'[h] # h_pc[h]
    /\ \/ h_pc'[h] = "get_status_copy"
       \/ h_pc[h] \in {"get_status_copy", "get_status_return"}

(* C12: get_status changes neither the record nor the error counters nor   *)
(* last_override_time; the dict it returned is not changed by a later      *)
(* commit or override, and a write of the caller to that dict does not     *)
(* change the record.                                                      *)
C12_GetStatusFrame ==
    [][\A h \in Handlers :
        /\ GetStatusStep(h)
           => /\ current_status' = current_status
              /\ error_counts' = error_counts
              /\ last_override_time' = last_override_time
        /\ (h_pc[h] = "get_status_return" /\ h_pc'[h] = "get_status_return")
           => /\ current_status' # current_status => Returned(h)' = Returned(h)
              /\ Returned(h)' # Returned(h) => current_status' = current_status]_vars

(* A caller holds a dict it has written to, and a commit of the loop came  *)
(* after the copy: the record has neither the caller's write nor the old   *)
(* timestamp.                                                              *)
C12_Witness ==
    \E h \in Handlers :
        /\ h_pc[h] = "get_status_return"
        /\ Returned(h).power = "edited"
        /\ current_status.power = "active"
        /\ current_status.timestamp # Returned(h).timestamp
        /\ loop_pc = "sleep"

(* C13: every step that writes the record or an error counter is taken by  *)
(* a thread that holds the lock: the loop when the step is the loop's, a   *)
(* request handler otherwise.                                              *)
C13_WritesUnderLock ==
    [][(current_status' # current_status \/ error_counts' # error_counts)
       => IF loop_pc' # loop_pc THEN lock = "loop" ELSE lock \in Handlers]_vars

(* C14: the commit of a poll cycle whose now-playing fetch failed leaves   *)
(* title, uri and now_playing_id as they were while the failures in a row  *)
(* are at most max_error_iterations, and writes "Unknown", "" and 0 once   *)
(* they are more.                                                          *)
C14_NowPlayingGrace ==
    [][(/\ loop_pc = "commit_update"
        /\ loop_pc' = "commit_timestamp"
        /\ now_playing_fails >= 1)
       => IF now_playing_fails <= max_error_iterations
          THEN /\ current_status'.title = current_status.title
               /\ current_status'.uri = current_status.uri
               /\ current_status'.now_playing_id = current_status.now_playing_id
          ELSE /\ current_status'.title = K_Unknown
               /\ current_status'.uri = <<>>
               /\ current_status'.now_playing_id = 0]_vars

(* The fourth failure in a row has just replaced a fetched content, kept   *)
(* through three failures, by the sentinel.                                *)
C14_Witness ==
    /\ loop_pc = "commit_timestamp"
    /\ now_playing_fails = max_error_iterations + 1
    /\ current_status.title = K_Unknown
    /\ current_status.now_playing_id = 0
    /\ stable.title = K_Netflix
    /\ stable.now_playing_id = 100

(* C15: _fetch_now_playing's answer (title, uri) is a success exactly when *)
(* title is not "Unknown" or uri is not empty.  A success puts title, uri  *)
(* and the id of title in the new values and sets the now_playing counter  *)
(* to 0, and the commit writes them; any other answer takes the failure    *)
(* branch, which writes nothing before it has counted the failure.         *)
C15_NowPlayingSuccess ==
    /\ [][\A r \in NowPlayingEdgeAnswers :
            (NowPlayingSuccess(r[1], r[2]) \/ NowPlayingFailure(r[1], r[2]))
            => IF r[1] # K_Unknown \/ r[2] # <<>>
               THEN /\ loop_pc' = "commit"
                    /\ new_values'.title = r[1]
                    /\ new_values'.uri = r[2]
                    /\ new_values'.now_playing_id = ReferenceId(r[1])
                    /\ error_counts'.now_playing = 0
               ELSE /\ loop_pc' = "now_playing_store"
                    /\ new_values' = new_values
                    /\ error_counts' = error_counts]_vars
    /\ [][(/\ loop_pc = "commit_update"
           /\ loop_pc' = "commit_timestamp"
           /\ now_playing_fails = 0
           /\ "title" \in DOMAIN new_values)
          => /\ current_status'.title = new_values.title
             /\ current_status'.uri = new_values.uri
             /\ current_status'.now_playing_id = ReferenceId(new_values.title)
             /\ error_counts'.now_playing = 0]_vars

(* The record after the commit of a fetch that returned "Unknown" with a   *)
(* uri: a success by the uri alone.                                        *)
C15_Witness ==
    /\ loop_pc = "sleep"
    /\ current_status.title = K_Unknown
    /\ current_status.uri = <<"c", "o", "m", ".", "e", "x", "a", "m", "p", "l", "e", ".", "a", "p", "p">>
    /\ current_status.now_playing_id = 0
    /\ current_status.timestamp # None
    /\ error_counts.now_playing = 0

(* C16: each error counter is the number of failed fetches of its signal   *)
(* in a row since the last successful one and, for now_playing, since the  *)
(* last override.                                                          *)
C16_CountersCountFailures ==
    /\ error_counts.power = power_fails
    /\ error_counts.volume = volume_fails
    /\ error_counts.now_playing = now_playing_fails

(* C17: the commit of a poll cycle whose power fetch succeeded writes the  *)
(* fetched status, whatever the record and the counter held before, and    *)
(* the power counter is 0; the failures that follow are counted from zero, *)
(* so that the next max_error_iterations of them put no "offline".         *)
C17_PowerSuccessResets ==
    /\ [][(/\ loop_pc = "commit_update"
           /\ loop_pc' = "commit_timestamp"
           /\ power_ok # None
           /\ power_fails = 0)
          => /\ current_status'.power = power_ok[1]
             /\ error_counts'.power = 0]_vars
    /\ [][(/\ loop_pc = "power_wait"
           /\ loop_pc' = "volume_wait"
           /\ power_fails' >= 1
           /\ power_fails' <= max_error_iterations)
          => "power" \notin DOMAIN new_values']_vars

(* A commit has just replaced "offline" by a fetched status. *)
C17_Witness ==
    /\ loop_pc = "commit_timestamp"
    /\ stable.power = "offline"
    /\ current_status.power = "active"
    /\ error_counts.power = 0

(* The order of a normal poll: the three fetches, then the commit. *)
CycleOrder ==
    {<<"power_wait", "volume_wait">>,
     <<"volume_wait", "now_playing_wait">>,
     <<"now_playing_wait", "now_playing_store">>,
     <<"now_playing_store", "now_playing_check">>,
     <<"now_playing_check", "commit">>,
     <<"now_playing_wait", "commit">>,
     <<"commit", "commit_update">>,
     <<"commit_update", "commit_timestamp">>,
     <<"commit_timestamp", "sleep">>}

C19_CommitStampsTime ==
    /\ [][(loop_pc = "commit_timestamp" /\ loop_pc' = "sleep")
          => /\ current_status'.timestamp = Some(now)
             /\ lock = "loop"
             /\ lock' = NoOwner]_vars
    /\ [][(loop_pc = "commit_update" /\ loop_pc' # loop_pc)
          => /\ loop_pc' = "commit_timestamp"
             /\ lock = "loop"
             /\ lock' = "loop"]_vars
    /\ [][(loop_pc \in CycleStates \ InFlight /\ loop_pc' = "sleep")
          => loop_pc = "commit_timestamp"]_vars

(* The first poll found the device silent: its three fetches failed, the   *)
(* record is as constructed but for the timestamp of the commit.           *)
C19_Witness ==
    /\ loop_pc = "sleep"
    /\ wake = now + poll_interval
    /\ power_fails = 1
    /\ volume_fails = 1
    /\ now_playing_fails = 1
    /\ current_status = [power |-> "unknown", volume |-> 0, muted |-> FALSE,
                         title |-> K_Unknown, uri |-> <<>>, now_playing_id |-> 0,
                         timestamp |-> Some(now)]

(* The tick of the poll or skip that the present sleep follows. *)
LastTick ==
    wake - poll_interval

PollCommitted ==
    /\ loop_pc = "sleep"
    /\ current_status.timestamp = Some(LastTick)
    /\ last_override_time # LastTick
    /\ \A h \in Handlers : h_pc[h] = "idle"

(* The ticks from the first failed power fetch to the last tick. *)
TicksSinceFailure ==
    (LastTick - power_fail_since[1]) \div poll_interval + 1

C21_SleepInterruptible ==
    (loop_pc = "sleep" /\ stop_event) => ENABLED Wake

(* A decoded body that is an object with an "error" key. *)
HasErrorKey(json) ==
    json.type = "dict" /\ <<"e", "r", "r", "o", "r">> \in DOMAIN json.value

IsApplicationError(outcome) ==
    /\ ~IsRaise(outcome)
    /\ outcome.status_code = 200
    /\ ~IsRaise(outcome.json)
    /\ HasErrorKey(outcome.json)

(* C22: make_sony_api_request returns a result for every outcome, never   *)
(* an exception; the result is a success only for a response 200 whose    *)
(* decoded body has no "error" key, and every other outcome gives a       *)
(* failure with a message; for an error payload of a code and a message   *)
(* the message is "Sony API error <code>: <msg>", which no transport      *)
(* failure gives.                                                          *)
C22_RequestNeverRaises ==
    sony_result # None =>
        LET outcome == sony_outcome[1]
            res == sony_result[1]
        IN  /\ ~IsRaise(res)
            /\ res.success \in BOOLEAN
            /\ res.success => /\ ~IsRaise(outcome)
                              /\ outcome.status_code = 200
                              /\ ~IsRaise(outcome.json)
                              /\ ~HasErrorKey(outcome.json)
            /\ ~res.success => DOMAIN res = {"success", "error"} /\ res.error # <<>>
            /\ res.success => DOMAIN res = {"success", "data"} /\ res.data = outcome.json
            /\ IsApplicationError(outcome) => res.error \notin SonyExceptions
            /\ \A code \in {7, 403, 40005}, msg \in {<<"I", "l", "l", "e", "g", "a", "l", " ", "S", "t", "a", "t", "e">>, <<"F", "o", "r", "b", "i", "d", "d", "e", "n">>, <<"D", "i", "s", "p", "l", "a", "y", " ", "I", "s", " ", "T", "u", "r", "n", "e", "d", " ", "o", "f", "f">>} :
                   (/\ IsApplicationError(outcome)
                    /\ outcome.json.value[<<"e", "r", "r", "o", "r">>].type = "list"
                    /\ Len(outcome.json.value[<<"e", "r", "r", "o", "r">>].value) >= 2
                    /\ outcome.json.value[<<"e", "r", "r", "o", "r">>].value[1] = PyInt(code)
                    /\ outcome.json.value[<<"e", "r", "r", "o", "r">>].value[2] = PyStr(msg))
                   => res.error = <<"S", "o", "n", "y", " ", "A", "P", "I", " ", "e", "r", "r", "o", "r", " ">> \o Str(code) \o <<":", " ">> \o msg

C22_Witness ==
    /\ sony_result # None
    /\ IsApplicationError(sony_outcome[1])
    /\ sony_result[1].error = <<"S", "o", "n", "y", " ", "A", "P", "I", " ", "e", "r", "r", "o", "r", " ", "7", ":", " ", "I", "l", "l", "e", "g", "a", "l", " ", "S", "t", "a", "t", "e">>

(* The adb commands were run. *)
ProbeTried ==
    \E i \in DOMAIN fetch_calls : fetch_calls[i] = "adb connect"

(* The texts of the first entry of the answer's result, if it has one. *)
QueryTexts ==
    LET res == fetch_res[1]
    IN  IF /\ res.success
           /\ res.data.type = "dict"
           /\ <<"r", "e", "s", "u", "l", "t">> \in DOMAIN res.data.value
           /\ res.data.value[<<"r", "e", "s", "u", "l", "t">>].type = "list"
           /\ res.data.value[<<"r", "e", "s", "u", "l", "t">>].value # <<>>
           /\ res.data.value[<<"r", "e", "s", "u", "l", "t">>].value[1].type = "dict"
        THEN LET info == res.data.value[<<"r", "e", "s", "u", "l", "t">>].value[1].value
             IN  {info[k].value : k \in DOMAIN info \cap {<<"t", "i", "t", "l", "e">>, <<"u", "r", "i">>}}
        ELSE {}

(* The standard outputs that name a package, and the name and package. *)
ProbeNames ==
    << [title |-> <<"N", "e", "t", "f", "l", "i", "x">>, uri |-> <<"c", "o", "m", ".", "n", "e", "t", "f", "l", "i", "x", ".", "n", "i", "n", "j", "a">>],
       [title |-> <<"t", "v", "l", "a", "u", "n", "c", "h", "e", "r">>, uri |-> <<"c", "o", "m", ".", "g", "o", "o", "g", "l", "e", ".", "a", "n", "d", "r", "o", "i", "d", ".", "t", "v", "l", "a", "u", "n", "c", "h", "e", "r">>],
       [title |-> <<"P", "l", "e", "x">>, uri |-> <<"t", "v", ".", "P", "l", "e", "x", ".", "A", "p", "p">>],
       [title |-> <<"N", "B", "A">>, uri |-> <<"c", "o", "m", ".", "n", "b", "a", ".", "a", "p", "p">>],
       [title |-> <<"S", "t", "a", "t", "u", "s", "B", "a", "r">>, uri |-> <<"S", "t", "a", "t", "u", "s", "B", "a", "r">>] >>

ProbeGaveNoName ==
    /\ fetch_probe # None
    /\ \/ IsRaise(fetch_probe[1])
       \/ /\ "stdout" \in DOMAIN fetch_probe[1]
          /\ \A i \in DOMAIN ProbeNames : fetch_probe[1].stdout # AdbStdouts[i]

(* C23: in _fetch_now_playing the adb commands run only when the answer   *)
(* to getPlayingContentInfo held no title and no uri to name; an adb      *)
(* command that raises ends the function with ("Unknown", ""), not with   *)
(* the exception; when the probe was tried and gave no package the result *)
(* is exactly ("Unknown", ""); and the poll cycle that receives           *)
(* ("Unknown", "") writes no title and adds one to the now_playing        *)
(* counter.                                                                *)
C23_ProbeIsFallback ==
    /\ ProbeTried => QueryTexts \subseteq {<<>>}
    /\ (fetch_pc = "return" /\ ProbeTried)
          => /\ ~IsRaise(fetch_result[1])
             /\ ProbeGaveNoName => fetch_result[1] = [title |-> K_Unknown, uri |-> <<>>]
             /\ \A i \in DOMAIN ProbeNames :
                   (~IsRaise(fetch_probe[1]) /\ fetch_probe[1].stdout = AdbStdouts[i])
                       => fetch_result[1] = ProbeNames[i]
    /\ (/\ fetch_pc = "return"
        /\ fetch_result[1] = [title |-> K_Unknown, uri |-> <<>>]
        /\ loop_pc # "now_playing_wait")
          => /\ loop_pc = "now_playing_store" \/ error_counts.now_playing = 1
             /\ loop_pc \in {"now_playing_store", "now_playing_check"}
                   => "title" \notin DOMAIN new_values
             /\ current_status.title = K_Unknown

C23_Witness ==
    /\ fetch_calls = <<"getPlayingContentInfo", "adb connect", "adb shell dumpsys">>
    /\ IsRaise(fetch_probe[1])
    /\ fetch_result = Some([title |-> K_Unknown, uri |-> <<>>])
    /\ error_counts.now_playing = 1
    /\ loop_pc = "sleep"

(* C24: in every state the now_playing_id of the record is the id that    *)
(* _get_now_playing_id gives for the title of the record, whatever commits *)
(* of the loop, resets to "Unknown" and overrides have written it.        *)
C24_IdMatchesTitle ==
    current_status.now_playing_id = get_now_playing_id(current_status.title)

C24_Witness ==
    /\ override_seen # None
    /\ current_status.title = K_Netflix
    /\ current_status.now_playing_id # get_now_playing_id(override_seen[1].title)
    /\ current_status.now_playing_id # 0

(* Where a handler is inside update_override. *)
OverridePcs ==
    {"override_status", "override_time", "override_count"}

(* C25: no step of update_override changes power, volume or muted in the  *)
(* record, the power counter, the volume counter or the stop_event; when  *)
(* the call returns, title, uri and now_playing_id are those of the call  *)
(* and the now_playing counter is 0.                                       *)
C25_OverrideFrame ==
    [][\A h \in Handlers :
          (h_pc'[h] # h_pc[h] /\ (h_pc[h] \in OverridePcs \/ h_pc'[h] \in OverridePcs))
            => /\ current_status'.power = current_status.power
               /\ current_status'.volume = current_status.volume
               /\ current_status'.muted = current_status.muted
               /\ error_counts'.power = error_counts.power
               /\ error_counts'.volume = error_counts.volume
               /\ stop_event' = stop_event
               /\ h_pc[h] = "override_count"
                    => /\ current_status'.title = h_args[h][1].title
                       /\ current_status'.uri = h_args[h][1].uri
                       /\ current_status'.now_playing_id
                              = get_now_playing_id(h_args[h][1].title)
                       /\ error_counts'.now_playing = 0]_vars

C25_Witness ==
    /\ override_seen # None
    /\ override_seen[1].time = now
    /\ current_status.title = override_seen[1].title
    /\ current_status.power = "active"
    /\ current_status.volume = 25
    /\ error_counts.power >= 1
    /\ error_counts.now_playing = 0

(* C26: a tick of the loop that begins less than the cool-down window     *)
(* after the last override goes to the sleep without a request to the     *)
(* device: no fetch is recorded, the lock is not taken, and the three     *)
(* error counters are what they were.                                     *)
C26_SuppressedTickCountsNothing ==
    [][(/\ loop_pc = "top"
        /\ ~stop_event
        /\ now - last_override_time < CoolDown
        /\ loop_pc' # loop_pc)
       => (/\ loop_pc' = "sleep"
           /\ error_counts' = error_counts
           /\ <<power_ok, power_fails, volume_ok, volume_fails, now_playing_fails>>'
                  = <<power_ok, power_fails, volume_ok, volume_fails, now_playing_fails>>
           /\ new_values' = new_values
           /\ cycle_acquires' = cycle_acquires
           /\ lock' = lock)]_vars

C26_Witness ==
    /\ loop_pc = "sleep"
    /\ wake = now + poll_interval
    /\ now - last_override_time > 0
    /\ now - last_override_time < CoolDown
    /\ current_status.timestamp = Some(last_override_time)
    /\ error_counts.power >= 1
    /\ error_counts.power = power_fails

(* C27: a poll cycle that an exception ends before its commit leaves the  *)
(* record, timestamp included, as it was: no step of the loop before the  *)
(* commit writes the record, the step that catches the exception writes   *)
(* nothing, so that the record is what the last holder of the lock left,  *)
(* and the next cycle starts from empty new_values.                       *)
C27_AbortedCycleWritesNothing ==
    /\ [][(loop_pc # loop_pc' /\ loop_pc \in {"top"} \cup InFlight
                                   \cup {"now_playing_store", "now_playing_check", "commit"})
          => current_status' = current_status]_vars
    /\ [][(loop_pc \in InFlight /\ loop_pc' = "sleep")
          => /\ current_status' = current_status
             /\ lock = NoOwner => current_status' = stable]_vars
    /\ [][(loop_pc = "top" /\ loop_pc' \in InFlight) => new_values' = <<>>]_vars

C27_Witness ==
    /\ loop_pc = "sleep"
    /\ new_values # <<>>
    /\ "power" \in DOMAIN new_values
    /\ power_ok = Some(new_values.power)
    /\ current_status.power = "unknown"
    /\ current_status.timestamp = None

(* Both callers have returned from update_override. *)
AllReturned ==
    \A h \in Callers : h_pc[h] = "done"

(* Title, uri and now_playing_id of the record are those of one call. *)
FromOneCall ==
    /\ <<current_status.title, current_status.uri>> \in CallerArgs
    /\ current_status.now_playing_id = get_now_playing_id(current_status.title)

(* C28: when two calls of update_override have both returned and the loop *)
(* has made no commit, title, uri and now_playing_id of the record are    *)
(* those of one of the calls and the now_playing counter is 0.            *)
C28_OverridesSerialise ==
    AllReturned => (FromOneCall /\ error_counts.now_playing = 0)

====
